---------------------------- MODULE Spec2Model ----------------------------
(***************************************************************************)
(* Verification model of the three FlightMotionControl engines:            *)
(*   "TS"  - src/src/FlightMotionControl.ts (interval timer, FRAMES = 20)  *)
(*   "RAF" - src/webpack.config.js lines 113-635 (requestAnimationFrame)   *)
(*   "MF"  - src/webpack.config.js lines 694-1329 (MINIMUM_FRAMES)         *)
(*                                                                         *)
(* JavaScript numbers are modelled as exact rationals <<n, d>> (d > 0,     *)
(* lowest terms) extended with the three IEEE-754 non-finite values:       *)
(* <<1,0>> = +Infinity, <<-1,0>> = -Infinity, <<0,0>> = NaN.  The value    *)
(* `undefined` of an omitted field is the empty tuple.  Nested objects     *)
(* (position, attitude, velocity) live in a heap, because the engines      *)
(* copy MotionState objects shallowly and so share them.                   *)
(***************************************************************************)
EXTENDS Integers, Sequences, FiniteSets, TLC

(***************************************************************************)
(* JavaScript number arithmetic                                            *)
(***************************************************************************)
UNDEF == <<>>
NaN == <<0, 0>>
PosInf == <<1, 0>>
NegInf == <<-1, 0>>

AbsInt(n) == IF n < 0 THEN -n ELSE n
SignInt(n) == IF n < 0 THEN -1 ELSE IF n > 0 THEN 1 ELSE 0

RECURSIVE Gcd(_, _)
Gcd(a, b) == IF b = 0 THEN a ELSE Gcd(b, a % b)

\* the rational n/d with d # 0, in lowest terms with a positive denominator
Frac(n, d) ==
    LET g == Gcd(AbsInt(n), AbsInt(d))
        s == SignInt(d)
    IN  <<(s * n) \div g, (s * d) \div g>>

Num(n) == <<n, 1>>
Zero == Num(0)

IsNaN(a) == a = NaN
IsFinite(a) == a[2] # 0

Neg(a) == <<-a[1], a[2]>>

\* a + b
Add(a, b) ==
    IF IsNaN(a) \/ IsNaN(b) THEN NaN
    ELSE IF IsFinite(a) /\ IsFinite(b)
         THEN LET g == Gcd(a[2], b[2])
              IN  Frac(a[1] * (b[2] \div g) + b[1] * (a[2] \div g), a[2] * (b[2] \div g))
    ELSE IF IsFinite(a) THEN b
    ELSE IF IsFinite(b) THEN a
    ELSE IF a = b THEN a ELSE NaN

\* a - b
Sub(a, b) == Add(a, Neg(b))

\* a * b
Mul(a, b) ==
    IF IsNaN(a) \/ IsNaN(b) THEN NaN
    ELSE IF IsFinite(a) /\ IsFinite(b)
         THEN LET g1 == Gcd(AbsInt(a[1]), b[2])
                  g2 == Gcd(AbsInt(b[1]), a[2])
              IN  Frac((a[1] \div g1) * (b[1] \div g2), (a[2] \div g2) * (b[2] \div g1))
    ELSE LET s == SignInt(a[1]) * SignInt(b[1])
         IN  IF s = 0 THEN NaN ELSE <<s, 0>>

\* 1 / a, with 1/0 = +Infinity and 1/Infinity = 0
Recip(a) ==
    IF IsNaN(a) THEN NaN
    ELSE IF ~IsFinite(a) THEN Zero
    ELSE IF a[1] = 0 THEN PosInf
    ELSE Frac(a[2], a[1])

\* a / b: x/0 is +-Infinity for x # 0, and 0/0 is NaN
Div(a, b) ==
    IF IsFinite(b) /\ b[1] < 0 THEN Mul(Neg(a), Recip(Neg(b))) ELSE Mul(a, Recip(b))

\* a < b (false when either is NaN)
Lt(a, b) ==
    IF IsNaN(a) \/ IsNaN(b) THEN FALSE
    ELSE IF IsFinite(a) /\ IsFinite(b)
         THEN IF a[1] \div a[2] # b[1] \div b[2] THEN a[1] \div a[2] < b[1] \div b[2]
              ELSE (a[1] % a[2]) * b[2] < (b[1] % b[2]) * a[2]
    ELSE IF IsFinite(a) THEN b[1] > 0
    ELSE IF IsFinite(b) THEN a[1] < 0
    ELSE a[1] < b[1]

Gt(a, b) == Lt(b, a)
Le(a, b) == ~IsNaN(a) /\ ~IsNaN(b) /\ (a = b \/ Lt(a, b))
Ge(a, b) == Le(b, a)

\* integer part toward zero of a finite number
Trunc(a) == IF a[1] >= 0 THEN a[1] \div a[2] ELSE -((-a[1]) \div a[2])

\* a % b: the remainder has the sign of the dividend
JsMod(a, b) ==
    IF IsNaN(a) \/ IsNaN(b) \/ ~IsFinite(a) \/ b = Zero THEN NaN
    ELSE IF ~IsFinite(b) THEN a
    ELSE Sub(a, Mul(b, Num(Trunc(Div(a, b)))))

\* Math.round: nearest integer, halves toward +Infinity
MathRound(a) ==
    IF IsFinite(a)
    THEN Num((a[1] \div a[2]) + (IF (a[1] % a[2]) >= a[2] - (a[1] % a[2]) THEN 1 ELSE 0))
    ELSE a

MathMax(a, b) == IF IsNaN(a) \/ IsNaN(b) THEN NaN ELSE IF Lt(a, b) THEN b ELSE a
MathMin(a, b) == IF IsNaN(a) \/ IsNaN(b) THEN NaN ELSE IF Lt(b, a) THEN b ELSE a

\* v ?? d
Nullish(v, d) == IF v = UNDEF THEN d ELSE v
\* v || d: undefined, 0 and NaN are falsy
OrElse(v, d) == IF v = UNDEF \/ v = Zero \/ v = NaN THEN d ELSE v


(***************************************************************************)
(* Math library functions.  Arguments and results are in degrees.  The     *)
(* values on the axes and diagonals are exact; elsewhere a rational        *)
(* approximation is used.                                                  *)
(***************************************************************************)
AbsNum(a) == IF a[1] < 0 THEN Neg(a) ELSE a

\* Math.cos(x * Math.PI / 180): x is reduced to [0, 180] and rounded to a
\* whole degree, then Bhaskara's formula (4*(90-y)*(90+y)... ) is applied:
\* cos(y) = (32400 - 4 y^2) / (32400 + y^2) for y in [0, 90], exact at 0, 60, 90.
CosDeg(x) ==
    IF ~IsFinite(x) THEN NaN
    ELSE LET r == AbsInt(MathRound(x)[1]) % 360
             y == IF r > 180 THEN 360 - r ELSE r
             B(z) == Frac(32400 - 4 * z * z, 32400 + z * z)
         IN  IF y <= 90 THEN B(y) ELSE Neg(B(180 - y))

\* Math.sin(x * Math.PI / 180), as the cosine of the complement
SinDeg(x) == CosDeg(Sub(Num(90), x))

\* Math.atan(t) * 180 / Math.PI for t in [0, 1]: t is rounded to 1/100, then
\* 45 t - t (t - 1) (14.02 + 3.80 t), exact at 0 and 1.
AtanUnitDeg(t) ==
    LET q == Frac(MathRound(Mul(t, Num(100)))[1], 100)
    IN  Sub(Mul(Num(45), q),
            Mul(Mul(q, Sub(q, Num(1))), Add(Frac(1402, 100), Mul(Frac(380, 100), q))))

\* Math.atan2(y, x) * 180 / Math.PI, in (-180, 180]
Atan2Deg(y, x) ==
    IF IsNaN(y) \/ IsNaN(x) THEN NaN
    ELSE LET ay == AbsNum(y)
             ax == AbsNum(x)
             a  == IF y = Zero THEN Zero
                   ELSE IF x = Zero THEN Num(90)
                   ELSE IF ay = ax THEN Num(45)
                   ELSE IF ~IsFinite(y) THEN Num(90)
                   ELSE IF ~IsFinite(x) THEN Zero
                   ELSE IF Lt(ay, ax) THEN AtanUnitDeg(Div(ay, ax))
                   ELSE Sub(Num(90), AtanUnitDeg(Div(ax, ay)))
             h  == IF x[1] < 0 THEN Sub(Num(180), a) ELSE a
         IN  IF y[1] < 0 THEN Neg(h) ELSE h

\* Math.sqrt(a * a + b * b): exact when one argument is zero, otherwise the
\* estimate 0.96 * max + 0.4 * min (max alone when min is below a
\* thousandth of it)
Hypot(a, b) ==
    IF IsNaN(a) \/ IsNaN(b) THEN NaN
    ELSE IF ~IsFinite(a) \/ ~IsFinite(b) THEN PosInf
    ELSE IF a = Zero THEN AbsNum(b)
    ELSE IF b = Zero THEN AbsNum(a)
    ELSE IF Lt(Mul(MathMin(AbsNum(a), AbsNum(b)), Num(1000)), MathMax(AbsNum(a), AbsNum(b)))
    THEN MathMax(AbsNum(a), AbsNum(b))
    ELSE Add(Mul(Frac(96, 100), MathMax(AbsNum(a), AbsNum(b))),
             Mul(Frac(4, 10), MathMin(AbsNum(a), AbsNum(b))))

(***************************************************************************)
(* Bounds of the model                                                     *)
(***************************************************************************)
MaxUpdates == 2      \* updateFlightState calls in one run
MaxTicks == 4        \* interpolation steps in one run
HeapSize == 21       \* nested objects that can be live at once
MaxCalls == 2        \* calls a caller makes besides updates: on states it was handed, or setCameraMode
MaxElapses == 1      \* times the clock advances between calls
MaxEstimateUpdates == 3  \* updateFlightState calls in a run that re-estimates velocities
MaxModeChanges == 1  \* setCameraMode calls in a run over all public methods
MaxTimers == 2       \* animation-frame loops that can run at once

(***************************************************************************)
(* Program constants                                                       *)
(***************************************************************************)
FRAMES_TS == 20
FRAMES_MF == 60
MINIMUM_FRAMES == 3
DerivativeCooldown == 5000
MetersPerDegree == Frac(1105743, 10)
MetersPerDegreeRAF == Num(111111)
PredictionSmoothingFactor == Frac(3, 10)

(***************************************************************************)
(* The state of one control instance and of its environment                *)
(***************************************************************************)
VARIABLES
    engine,                 \* which of the three classes the instance is
    now,                    \* performance.now(), in milliseconds
    _map,                   \* "undefined", "map" or "null"
    _container,             \* "undefined", "div" or "null"
    _disposed,
    _updateInterval,        \* handle of the interval timer, 0 for null
    _frameId,               \* handle of the pending animation frame, 0 for null
    timers,                 \* handles the window will still call back
    interactions,           \* "enabled" or "disabled": dragRotate, touchZoomRotate, keyboard
    _currentState,
    _previousState,
    _interpolationState,
    _currentInterpolation,
    heap,                   \* the nested position / attitude / velocity objects
    _lastUpdateTime,
    _lastFrameTime,
    _lastDerivativeCalcTime,
    predict,
    shouldPredict,
    _deltaIsCalculated,
    _currentDeltaTimeForPrediction,
    _velocity,
    _angularVelocity,
    _velocitySmoothed,
    _angularVelocitySmoothed,
    returned,               \* the object the caller got from its last getState()
    threw,                  \* the exception the last call raised, or "none"
    rendered,               \* the state last handed to camera placement and jumpTo
    jumpToCalls,            \* jumpTo calls of the last tick: 0, 1, or 2 for unboundedly many
    updates,                \* number of updateFlightState calls so far
    calls,                  \* calls the caller made on returned states
    _cameraMode,            \* the active camera mode
    elapses,                \* number of times the clock was advanced between calls
    ticks,                  \* number of interpolation steps so far
    last,                   \* history: the last call, its argument and what preceded it
    lastAcceptedAt,         \* history: clock reading of the last accepted update, -1 if none
    lastObserved,           \* history: the state value the last accepted update observed
    cleanRun                \* history: only interpolating ticks since the plan was created

lifeVars == <<_map, _container, _disposed, _updateInterval, _frameId, timers, interactions>>
stateVars == <<_currentState, _previousState, _interpolationState, _currentInterpolation, heap>>
timeVars == <<_lastUpdateTime, _lastFrameTime, _lastDerivativeCalcTime>>
predVars == <<predict, shouldPredict, _deltaIsCalculated, _currentDeltaTimeForPrediction>>
velVars == <<_velocity, _angularVelocity, _velocitySmoothed, _angularVelocitySmoothed>>
outVars == <<rendered, jumpToCalls>>
envVars == <<_cameraMode, elapses>>
vars == <<engine, calls, envVars, now, lifeVars, stateVars, timeVars, predVars, velVars, returned, threw,
          outVars, updates, ticks, last, lastAcceptedAt, lastObserved, cleanRun>>

(***************************************************************************)
(* Heap of nested objects                                                  *)
(***************************************************************************)
NULL == [null |-> TRUE]
FREE == [free |-> TRUE]
Parts == {"position", "attitude", "velocity"}

MinOf(S) == CHOOSE m \in S : \A n \in S : m <= n

EmptyHeap == [a \in 1..HeapSize |-> FREE]

\* the addresses a MotionState object refers to
Addrs(ms) == IF ms = NULL THEN {} ELSE {ms[p] : p \in Parts}

\* allocation of a MotionState literal { position: {..}, attitude: {..}, velocity: {..} }
NewState(h, pos, att, vel) ==
    LET f  == {a \in DOMAIN h : h[a] = FREE}
        a1 == MinOf(f)
        a2 == MinOf(f \ {a1})
        a3 == MinOf(f \ {a1, a2})
    IN  [heap |-> [h EXCEPT ![a1] = pos, ![a2] = att, ![a3] = vel],
         ref  |-> [position |-> a1, attitude |-> a2, velocity |-> a3]]

\* the value of a MotionState object: its nested objects read through the heap
Deref(h, ms) ==
    IF ms = NULL THEN NULL
    ELSE [f \in DOMAIN ms |-> IF f \in Parts THEN h[ms[f]] ELSE ms[f]]

\* objects nothing refers to any more are reclaimed
PlanAddrs(plan) == IF plan = NULL THEN {} ELSE Addrs(plan.start) \cup Addrs(plan.target)
Collect(h, live) == [a \in DOMAIN h |-> IF a \in live THEN h[a] ELSE FREE]
Live(cs, ps, is, plan, ret) ==
    Addrs(cs) \cup Addrs(ps) \cup Addrs(is) \cup PlanAddrs(plan) \cup Addrs(ret)

Zero3 == [x |-> Zero, y |-> Zero, z |-> Zero]
ZeroAngular == [heading |-> Zero, pitch |-> Zero, roll |-> Zero]

(***************************************************************************)
(* Inputs: constructor options, observations, clock steps, the renderer    *)
(***************************************************************************)
Engines == {"TS", "RAF", "MF"}

\* options.initialPosition: absent, or the spec's scenario position
InitialPositions == {NULL, [lat |-> Zero, lng |-> Zero, altitude |-> Num(1000)]}

Obs(la, ln, el, hd, gs, vs, pi, ro) ==
    [lat |-> la, lng |-> ln, elevation |-> el, flightHeading |-> hd,
     groundSpeed |-> gs, verticalSpeed |-> vs, pitchAttitude |-> pi, rollAttitude |-> ro]

\* the arrivals the feed may deliver: a partial observation, and the
\* milliseconds between the previous call and its arrival (0: the same clock
\* reading, 50: a burst, 1000: the one-second cadence of the spec's scenario)
Arrival(o, d) == [obs |-> o, dt |-> d]

ObsScenario == Obs(Zero, Zero, Num(1000), UNDEF, UNDEF, UNDEF, UNDEF, UNDEF)
ObsNorth == Obs(Frac(1, 1000), UNDEF, UNDEF, UNDEF, UNDEF, UNDEF, UNDEF, UNDEF)
ObsFull == Obs(Zero, Num(179), Num(1000), Num(350), Num(100), Zero, Num(5), Num(10))
ObsWest == Obs(UNDEF, Num(-179), UNDEF, Num(370), UNDEF, UNDEF, UNDEF, UNDEF)
ObsClimb == Obs(Zero, UNDEF, UNDEF, UNDEF, UNDEF, Num(5), UNDEF, UNDEF)
ObsBank == Obs(Zero, Zero, Num(1000), Num(350), Num(100), Zero, Num(5), Num(10))
ObsSpin == Obs(Zero, Zero, Num(1000), Num(370), Num(100), Zero, Num(5), Num(10))
ObsRoll == Obs(UNDEF, UNDEF, UNDEF, UNDEF, UNDEF, UNDEF, UNDEF, Zero)
ObsAscend == Obs(Zero, Zero, Num(2000), UNDEF, UNDEF, UNDEF, UNDEF, UNDEF)

Feed ==
    { Arrival(ObsScenario, 0), Arrival(ObsNorth, 1000), Arrival(ObsFull, 0),
      Arrival(ObsFull, 50), Arrival(ObsWest, 50), Arrival(ObsClimb, 1000) }

\* the arrivals of the runs in which a caller holds on to returned states
FeedCaller == { Arrival(ObsFull, 0), Arrival(ObsNorth, 1000) }

\* the arrivals of the runs with prediction, and the time that passes between calls
FeedPredict == { Arrival(ObsSpin, 0), Arrival(ObsNorth, 1000) }
FeedPredictRAF == { Arrival(ObsBank, 0), Arrival(ObsRoll, 1000) }
ClockSteps == {16, 5000}

\* the arrivals fed to engine RAF, whose smoothed estimates are kept within
\* the range of the model's integers
FeedRAF ==
    { Arrival(ObsScenario, 0), Arrival(ObsNorth, 1000), Arrival(ObsFull, 0),
      Arrival(ObsClimb, 1000), Arrival(ObsRoll, 1000) }

\* map.transform.getCameraLngLat() and getCameraAltitude() of the attached map
getCameraLngLat == [lat |-> Num(60), lng |-> Num(20)]
getCameraAltitude == Num(500)

\* what a caller may assign through the object getState() returned
CallerWrites == { [part |-> "position", field |-> "altitude", value |-> Num(5000)],
                  [part |-> "attitude", field |-> "heading", value |-> Num(45)] }

(***************************************************************************)
(* Construction                                                            *)
(***************************************************************************)
NoCall == [op |-> "constructor", obs |-> NULL, pre |-> NULL, prevAt |-> -1,
           prevObserved |-> NULL, prevEstimateAt |-> -1, elevation |-> UNDEF, after |-> "",
           life |-> NULL]

\* the _cameraMode field initializer
XYZ(x, y, z) == [x |-> Num(x), y |-> Num(y), z |-> Num(z)]
HPR(h, p, r) == [heading |-> Num(h), pitch |-> Num(p), roll |-> Num(r)]
DefaultCameraMode == [type |-> "COCKPIT", offset |-> XYZ(0, -30, 10), orientation |-> HPR(0, 0, 0)]

\* the modes passed to setCameraMode: each type, with and without an offset
\* and an orientation
CameraTypes == {"COCKPIT", "CHASE", "ORBIT", "FREE"}
CameraModes ==
    [type : CameraTypes, offset : {UNDEF, XYZ(1, 2, 3)}, orientation : {UNDEF, HPR(10, 20, 30)}]

\* the arrivals of the runs with mode changes
FeedCamera == { Arrival(ObsScenario, 1000) }

\* the modes and arrivals of the runs that look at the viewpoint: each type
\* with its default offset, FREE also with an orientation, and observations
\* that differ in attitude and ground speed
ViewModes ==
    { [type |-> t, offset |-> UNDEF, orientation |-> UNDEF] : t \in CameraTypes }
    \cup { [type |-> "FREE", offset |-> UNDEF, orientation |-> HPR(10, 20, 30)] }
FeedView == { Arrival(ObsScenario, 1000), Arrival(ObsBank, 1000) }

\* the arrivals of the runs that re-estimate velocities: five seconds apart,
\* the cooldown of the estimates
FeedEstimate == { Arrival(ObsBank, 5000), Arrival(ObsNorth, 5000) }

\* the arrivals of the runs in which an update overtakes a live plan: a climb
\* to 2000 m and a position fix in a burst, 50 ms after the call before them,
\* and a position fix five seconds after it
FeedReplan == { Arrival(ObsAscend, 50), Arrival(ObsNorth, 50), Arrival(ObsNorth, 5000) }

\* the angles and points the geodesy utilities are applied to: angles inside
\* and outside [0, 360), and pairs of points with the target on the equator
\* (east or west of the observer) or on the observer's meridian
Angles ==
    { Num(-540), Num(-365), Num(-180), Num(-1), Zero, Frac(1, 2), Num(1), Num(90), Num(179),
      Num(180), Num(181), Num(270), Num(359), Num(360), Num(361), Num(540), Num(765) }
FromLats == { Zero, Num(30) }
FromLngs == { Zero }
ToLats == { Zero, Num(30), Num(-30), Num(60) }
ToLngs == { Num(-150), Num(-90), Num(-30), Zero, Num(30), Num(90), Num(150), Num(180) }
PointPairs ==
    { p \in [fromLat : FromLats, fromLng : FromLngs, toLat : ToLats, toLng : ToLngs] :
          p.toLat = Zero \/ p.toLng = p.fromLng }

\* the options objects the engines are constructed with: {}, { predict: true }
\* and { initialPosition }
ConstructorOptions ==
    { [initialPosition |-> NULL, predict |-> FALSE, cameraMode |-> NULL],
      [initialPosition |-> NULL, predict |-> TRUE, cameraMode |-> NULL] }
    \cup { [initialPosition |-> ip, predict |-> FALSE, cameraMode |-> NULL] :
               ip \in InitialPositions \ {NULL} }

\* the options objects of the runs that look at the camera mode: {} and
\* { cameraMode } for each of ViewModes
CameraOptions ==
    { [initialPosition |-> NULL, predict |-> FALSE, cameraMode |-> m] :
          m \in ViewModes \cup {NULL} }

\* the mode the constructor stores for options.cameraMode:
\* offset: options.cameraMode.offset || { x: 0, y: 0, z: 0 }, the orientation likewise
ConstructedMode(mode) ==
    [type |-> mode.type,
     offset |-> IF mode.offset = UNDEF THEN XYZ(0, 0, 0) ELSE mode.offset,
     orientation |-> IF mode.orientation = UNDEF THEN HPR(0, 0, 0) ELSE mode.orientation]

\* the state the constructor of engine e leaves for an options object
Construct(e, options) ==
        LET ip == options.initialPosition
            p  == options.predict
            ns == NewState(EmptyHeap,
                           [lat |-> ip.lat, lng |-> ip.lng, altitude |-> ip.altitude],
                           [heading |-> Zero, pitch |-> Zero, roll |-> Zero],
                           [groundSpeed |-> Zero, verticalSpeed |-> Zero])
        IN
        /\ engine = e
        /\ now = 0
        /\ _map = "undefined"
        /\ _container = "undefined"
        /\ _disposed = FALSE
        /\ _updateInterval = 0
        /\ _frameId = 0
        /\ timers = {}
        /\ interactions = "enabled"
        /\ _currentState = IF ip = NULL THEN NULL
                           ELSE IF e = "RAF" THEN [position |-> ns.ref.position,
                                                   attitude |-> ns.ref.attitude,
                                                   velocity |-> ns.ref.velocity,
                                                   lastUpdateTime |-> 0]
                           ELSE ns.ref
        /\ heap = IF ip = NULL THEN EmptyHeap ELSE ns.heap
        /\ _previousState = NULL
        /\ _interpolationState = NULL
        /\ _currentInterpolation = NULL
        /\ _lastUpdateTime = 0
        /\ _lastFrameTime = 0
        /\ _lastDerivativeCalcTime = 0
        /\ predict = FALSE
        /\ shouldPredict = (p /\ e # "RAF")
        /\ _deltaIsCalculated = FALSE
        /\ _currentDeltaTimeForPrediction = UNDEF
        /\ _velocity = Zero3
        /\ _angularVelocity = ZeroAngular
        /\ _velocitySmoothed = Zero3
        /\ _angularVelocitySmoothed = ZeroAngular
        /\ returned = NULL
        /\ threw = "none"
        /\ rendered = NULL
        /\ jumpToCalls = 0
        /\ updates = 0
        /\ calls = 0
        /\ _cameraMode = IF options.cameraMode = NULL THEN DefaultCameraMode
                         ELSE ConstructedMode(options.cameraMode)
        /\ elapses = 0
        /\ ticks = 0
        /\ last = [NoCall EXCEPT !.obs = options.cameraMode]
        /\ lastAcceptedAt = -1
        /\ lastObserved = NULL
        /\ cleanRun = FALSE

Init == \E e \in Engines, options \in ConstructorOptions : Construct(e, options)

\* construction with a camera mode option
InitCamera == \E e \in Engines, options \in CameraOptions : Construct(e, options)

(***************************************************************************)
(* Geodesy utilities                                                       *)
(***************************************************************************)
Wrap360(a) == JsMod(Add(JsMod(a, Num(360)), Num(360)), Num(360))

_calculateShortestAngleDelta_Unfolded(start, end) == Sub(Wrap360(end), Wrap360(start))
_calculateShortestAngleDelta(start, end) ==
    LET d0 == Sub(Wrap360(end), Wrap360(start))
        d1 == IF Gt(d0, Num(180)) THEN Sub(d0, Num(360)) ELSE d0
    IN  IF Lt(d1, Num(-180)) THEN Add(d1, Num(360)) ELSE d1

_calculateShortestLongitudeDelta(start, end) ==
    LET d0 == Sub(end, start)
        d1 == IF Gt(d0, Num(180)) THEN Sub(d0, Num(360)) ELSE d0
    IN  IF Lt(d1, Num(-180)) THEN Add(d1, Num(360)) ELSE d1

\* _calculateHeadingToPoint: the initial bearing from the first point to the
\* second; engines TS and RAF add 360 before the remainder, engine MF does not
BearingY(fromLat, fromLng, toLat, toLng) == Mul(SinDeg(Sub(toLng, fromLng)), CosDeg(toLat))
BearingX(fromLat, fromLng, toLat, toLng) ==
    Sub(Mul(CosDeg(fromLat), SinDeg(toLat)),
        Mul(Mul(SinDeg(fromLat), CosDeg(toLat)), CosDeg(Sub(toLng, fromLng))))

_calculateHeadingToPoint(e, fromLat, fromLng, toLat, toLng) ==
    IF e = "MF"
    THEN JsMod(Atan2Deg(BearingY(fromLat, fromLng, toLat, toLng),
                        BearingX(fromLat, fromLng, toLat, toLng)), Num(360))
    ELSE JsMod(Add(Atan2Deg(BearingY(fromLat, fromLng, toLat, toLng),
                            BearingX(fromLat, fromLng, toLat, toLng)), Num(360)), Num(360))

\* the eight per-frame deltas of a plan from the state value `from` to `to`
PlanDeltas(from, to, frames) ==
    [lat |-> Div(Sub(to.position.lat, from.position.lat), frames),
     lng |-> Div(_calculateShortestLongitudeDelta(from.position.lng, to.position.lng), frames),
     altitude |-> Div(Sub(to.position.altitude, from.position.altitude), frames),
     heading |-> Div(_calculateShortestAngleDelta(from.attitude.heading, to.attitude.heading), frames),
     pitch |-> Div(Sub(to.attitude.pitch, from.attitude.pitch), frames),
     roll |-> Div(_calculateShortestAngleDelta(from.attitude.roll, to.attitude.roll), frames),
     groundSpeed |-> Div(Sub(to.velocity.groundSpeed, from.velocity.groundSpeed), frames),
     verticalSpeed |-> Div(Sub(to.velocity.verticalSpeed, from.velocity.verticalSpeed), frames)]

\* one interpolation step: the deltas added, heading and roll re-wrapped
StepState(s, d) ==
    [position |-> [lat |-> Add(s.position.lat, d.lat),
                   lng |-> Add(s.position.lng, d.lng),
                   altitude |-> Add(s.position.altitude, d.altitude)],
     attitude |-> [heading |-> JsMod(Add(Add(s.attitude.heading, d.heading), Num(360)), Num(360)),
                   pitch |-> Add(s.attitude.pitch, d.pitch),
                   roll |-> JsMod(Add(Add(s.attitude.roll, d.roll), Num(360)), Num(360))],
     velocity |-> [groundSpeed |-> Add(s.velocity.groundSpeed, d.groundSpeed),
                   verticalSpeed |-> Add(s.velocity.verticalSpeed, d.verticalSpeed)]]

\* _updateMotionDerivatives of the interval-timer engines: instantaneous
\* velocities from the values prev and curr, deltaTime in seconds
MotionDerivatives(prev, curr, deltaTime) ==
    LET cosLat == CosDeg(curr.position.lat)
        dx == Mul(Mul(Sub(curr.position.lng, prev.position.lng), cosLat), MetersPerDegree)
        dy == Mul(Sub(curr.position.lat, prev.position.lat), MetersPerDegree)
        dz == Sub(curr.position.altitude, prev.position.altitude)
        dHeading == _calculateShortestAngleDelta(prev.attitude.heading, curr.attitude.heading)
        dPitch == Sub(curr.attitude.pitch, prev.attitude.pitch)
        dRoll == Sub(curr.attitude.roll, prev.attitude.roll)
    IN  [velocity |-> [x |-> Div(dx, deltaTime), y |-> Div(dy, deltaTime), z |-> Div(dz, deltaTime)],
         angular |-> [heading |-> Div(dHeading, deltaTime),
                      pitch |-> Div(dPitch, deltaTime),
                      roll |-> Div(dRoll, deltaTime)]]

(***************************************************************************)
(* Views of the engine state used by the history variables and properties  *)
(***************************************************************************)
PlanStart == IF _currentInterpolation = NULL THEN NULL ELSE Deref(heap, _currentInterpolation.start)
PlanTarget == IF _currentInterpolation = NULL THEN NULL ELSE Deref(heap, _currentInterpolation.target)

\* the attachment of the control: map, container, tick source, map interactions
Life == [map |-> _map, container |-> _container, disposed |-> _disposed,
         updateInterval |-> _updateInterval, frameId |-> _frameId, timers |-> timers,
         interactions |-> interactions]

\* the remaining frames of the live plan, undefined when there is none
PlanFrames == IF _currentInterpolation = NULL THEN UNDEF
              ELSE _currentInterpolation.remainingFrames

\* the velocity and angular-velocity estimates, raw and smoothed
Estimates == [velocity |-> _velocity, angular |-> _angularVelocity,
              velocitySmoothed |-> _velocitySmoothed,
              angularSmoothed |-> _angularVelocitySmoothed]

View == [cur |-> Deref(heap, _currentState),
         prev |-> Deref(heap, _previousState),
         interp |-> Deref(heap, _interpolationState),
         start |-> PlanStart,
         target |-> PlanTarget,
         estimates |-> Estimates,
         remainingFrames |-> PlanFrames]

NeedsCamera(o) == o.lat = UNDEF \/ o.lng = UNDEF \/ o.elevation = UNDEF

\* the updateFlightState calls that store nothing: engine TS throws on a first
\* observation that needs the camera of a map it does not have, engine MF
\* returns at once without a map
Refuses(o) ==
    \/ engine = "TS" /\ _currentState = NULL /\ _map # "map" /\ NeedsCamera(o)
    \/ engine = "MF" /\ _map # "map"

\* the record of a call: what was called with what, the states it found
\* (for onAdd: the states the onRemove just before it found), for onAdd and
\* onRemove the call made before it and the attachment it found, and the
\* elevation last supplied to an updateFlightState call that stored something
Call(op, o) == [op |-> op, obs |-> o,
               pre |-> IF op \in {"updateFlightState", "assign", "tick", "stopPrediction",
                                  "onRemove"}
                       THEN View
                       ELSE IF op = "onAdd" /\ last.op = "onRemove" THEN last.pre ELSE NULL,
               prevAt |-> lastAcceptedAt,
               prevObserved |-> IF op = "updateFlightState" THEN lastObserved ELSE NULL,
               prevEstimateAt |-> IF op = "updateFlightState" THEN _lastDerivativeCalcTime ELSE -1,
               elevation |-> IF op = "updateFlightState" /\ ~Refuses(o) /\ o.elevation # UNDEF
                             THEN o.elevation ELSE last.elevation,
               after |-> IF op \in {"onAdd", "onRemove"} THEN last.op ELSE "",
               life |-> IF op \in {"onAdd", "onRemove"} THEN Life ELSE NULL]

\* the target / new state an observation yields: each field of the
\* observation, or the field of the state value cur when it is omitted
Observed(o, cur) ==
    [position |-> [lat |-> Nullish(o.lat, cur.position.lat),
                   lng |-> Nullish(o.lng, cur.position.lng),
                   altitude |-> Nullish(o.elevation, cur.position.altitude)],
     attitude |-> [heading |-> Nullish(o.flightHeading, cur.attitude.heading),
                   pitch |-> Nullish(o.pitchAttitude, cur.attitude.pitch),
                   roll |-> Nullish(o.rollAttitude, cur.attitude.roll)],
     velocity |-> [groundSpeed |-> Nullish(o.groundSpeed, cur.velocity.groundSpeed),
                   verticalSpeed |-> Nullish(o.verticalSpeed, cur.velocity.verticalSpeed)]]

\* the fallbacks of a first observation: the map camera for the position, 0 otherwise
CameraSeed ==
    [position |-> [lat |-> getCameraLngLat.lat, lng |-> getCameraLngLat.lng,
                   altitude |-> getCameraAltitude],
     attitude |-> [heading |-> Zero, pitch |-> Zero, roll |-> Zero],
     velocity |-> [groundSpeed |-> Zero, verticalSpeed |-> Zero]]


\* the plan literal { start, target, remainingFrames, deltas } an update installs
NewPlan_FromTarget(start, target, frames, deltas) ==
    [start |-> target, target |-> target, remainingFrames |-> frames, deltas |-> deltas]
NewPlan(start, target, frames, deltas) ==
    [start |-> start, target |-> target, remainingFrames |-> frames, deltas |-> deltas]

(***************************************************************************)
(* Engine "TS": src/src/FlightMotionControl.ts                             *)
(***************************************************************************)
\* if (this.shouldPredict): the velocities are estimated only for an instance
\* constructed with predict: true
EstimatesEnabled_Always == TRUE
EstimatesEnabled == shouldPredict

updateFlightState_TS(o, d) ==
    /\ engine = "TS"
    /\ updates < MaxUpdates
    /\ updates' = updates + 1
    /\ now' = now + d
    /\ last' = Call("updateFlightState", o)
    /\ LET deltaTime == Num(now + d - _lastUpdateTime)
           cur == Deref(heap, _currentState)
       IN
       IF _currentState = NULL
       THEN IF _map # "map" /\ NeedsCamera(o)
            THEN \* this._map.transform is read on an undefined / null map
                 /\ threw' = "TypeError"
                 /\ _previousState' = _currentState
                 /\ UNCHANGED <<_currentState, _currentInterpolation, heap, _velocity,
                                _angularVelocity, lastAcceptedAt, lastObserved, cleanRun>>
            ELSE LET v  == Observed(o, CameraSeed)
                     ns == NewState(heap, v.position, v.attitude, v.velocity)
                 IN  /\ threw' = "none"
                     /\ _previousState' = _currentState
                     /\ _currentState' = ns.ref
                     /\ heap' = Collect(ns.heap, Live(ns.ref, _currentState, NULL,
                                                      _currentInterpolation, returned))
                     /\ lastAcceptedAt' = now + d
                     /\ lastObserved' = v
                     /\ UNCHANGED <<_currentInterpolation, _velocity, _angularVelocity, cleanRun>>
       ELSE LET targetState == Observed(o, cur)
                ns == NewState(heap, targetState.position, targetState.attitude,
                               targetState.velocity)
                frames == MathRound(Mul(Div(deltaTime, Num(1000)), Num(FRAMES_TS)))
                plan == NewPlan(_currentState, ns.ref, frames,
                                PlanDeltas(cur, targetState, frames))
                \* _updateMotionDerivatives reads _previousState and _currentState,
                \* which are one object at this point
                md == MotionDerivatives(Deref(ns.heap, _currentState),
                                        Deref(ns.heap, _currentState),
                                        Div(deltaTime, Num(1000)))
            IN  /\ threw' = "none"
                /\ _previousState' = _currentState
                /\ _currentInterpolation' = plan
                /\ heap' = Collect(ns.heap, Live(_currentState, _currentState, NULL, plan, returned))
                /\ _velocity' = IF EstimatesEnabled THEN md.velocity ELSE _velocity
                /\ _angularVelocity' = IF EstimatesEnabled THEN md.angular ELSE _angularVelocity
                /\ lastAcceptedAt' = now + d
                /\ lastObserved' = targetState
                /\ cleanRun' = TRUE
                /\ UNCHANGED _currentState
    /\ UNCHANGED <<engine, calls, envVars, lifeVars, _interpolationState, timeVars, predVars,
                   _velocitySmoothed, _angularVelocitySmoothed, returned, outVars, ticks>>

\* this._currentInterpolation.remainingFrames--
Consumed_Twice(plan) == [plan EXCEPT !.remainingFrames = Sub(@, Num(2))]
Consumed(plan) == [plan EXCEPT !.remainingFrames = Sub(@, Num(1))]

\* _predictCurrentState of engine TS, on the state value s
_predictCurrentState_TS(s, deltaTime) ==
    LET latChange == Div(Mul(_velocity.y, deltaTime), MetersPerDegree)
        lngChange == Div(Mul(_velocity.x, deltaTime),
                         Mul(MetersPerDegree, CosDeg(s.position.lat)))
        altChange == Mul(_velocity.z, deltaTime)
        headingChange == Mul(_angularVelocity.heading, deltaTime)
        pitchChange == Mul(_angularVelocity.pitch, deltaTime)
        rollChange == Mul(_angularVelocity.roll, deltaTime)
    IN  [position |-> [lat |-> Add(s.position.lat, latChange),
                       lng |-> Add(s.position.lng, lngChange),
                       altitude |-> Add(s.position.altitude, altChange)],
         attitude |-> [heading |-> JsMod(Add(Add(s.attitude.heading, headingChange), Num(360)),
                                         Num(360)),
                       pitch |-> Add(s.attitude.pitch, pitchChange),
                       roll |-> Add(s.attitude.roll, rollChange)],
         velocity |-> s.velocity]

\* the timer callback: _updateFrame, _interpolateFrame and _updateCamera
_updateFrame_TS ==
    /\ engine = "TS"
    /\ timers # {}
    /\ last' = Call("tick", NULL)
    /\ IF _disposed \/ _map # "map" \/ _currentInterpolation = NULL \/ _currentState = NULL
       THEN /\ jumpToCalls' = 0
            /\ threw' = "none"
            /\ UNCHANGED <<stateVars, rendered, _deltaIsCalculated,
                           _currentDeltaTimeForPrediction, ticks>>
       ELSE LET plan == _currentInterpolation
                done == Le(plan.remainingFrames, Zero)
                sv == StepState(Deref(heap, _currentState), plan.deltas)
                ns == NewState(heap, sv.position, sv.attitude, sv.velocity)
                cs == IF done THEN plan.target ELSE ns.ref
                np == IF done THEN NULL
                      ELSE Consumed(plan)
                h1 == IF done THEN heap ELSE ns.heap
                predicting == predict /\ _previousState # NULL
                dtp == IF _deltaIsCalculated THEN _currentDeltaTimeForPrediction
                       ELSE Num(now - _lastUpdateTime)
            IN  /\ ticks < MaxTicks
                /\ ticks' = ticks + 1
                /\ _currentState' = cs
                /\ _currentInterpolation' = np
                /\ heap' = Collect(h1, Live(cs, _previousState, NULL, np, returned))
                /\ _deltaIsCalculated' = (_deltaIsCalculated \/ predicting)
                /\ _currentDeltaTimeForPrediction' =
                       IF predicting THEN dtp ELSE _currentDeltaTimeForPrediction
                /\ rendered' = IF predicting THEN _predictCurrentState_TS(Deref(h1, cs), dtp)
                               ELSE Deref(h1, cs)
                \* with predict set _updateCamera calls itself without end
                /\ jumpToCalls' = IF predict THEN 2 ELSE 1
                /\ threw' = IF predict THEN "RangeError" ELSE "none"
                /\ UNCHANGED <<_previousState, _interpolationState>>
    /\ UNCHANGED <<engine, calls, envVars, now, lifeVars, timeVars, predict, shouldPredict, velVars,
                   returned, updates, lastAcceptedAt, lastObserved, cleanRun>>

(***************************************************************************)
(* Engine "RAF": src/webpack.config.js lines 113-635                       *)
(***************************************************************************)
\* _shortestAngleDifference: the two while loops, which a NaN difference
\* skips (an infinite difference, which would never leave them, is returned
\* as it is)
RECURSIVE _shortestAngleDifference_loop(_)
_shortestAngleDifference_loop(diff) ==
    IF ~IsFinite(diff) THEN diff
    ELSE IF Gt(diff, Num(180)) THEN _shortestAngleDifference_loop(Sub(diff, Num(360)))
    ELSE IF Lt(diff, Num(-180)) THEN _shortestAngleDifference_loop(Add(diff, Num(360)))
    ELSE diff

_shortestAngleDifference(angle1, angle2) == _shortestAngleDifference_loop(Sub(angle2, angle1))

\* the altitude an update of engine RAF stores
InferredAltitude_Held(o, cur, deltaTime) == Nullish(o.elevation, cur.position.altitude)

InferredAltitude(o, cur, deltaTime) ==
    IF o.elevation = UNDEF /\ o.verticalSpeed # UNDEF
    THEN Add(cur.position.altitude, Mul(o.verticalSpeed, deltaTime))
    ELSE IF o.elevation = UNDEF THEN cur.position.altitude
    ELSE o.elevation

InferredVerticalSpeed(o, cur, altitude, deltaTime) ==
    IF o.verticalSpeed = UNDEF /\ o.elevation # UNDEF
    THEN Div(Sub(altitude, cur.position.altitude), deltaTime)
    ELSE IF o.verticalSpeed = UNDEF THEN cur.velocity.verticalSpeed
    ELSE o.verticalSpeed

InferredGroundSpeed(o, cur, lat, lng, deltaTime) ==
    IF o.groundSpeed = UNDEF /\ (o.lat # UNDEF \/ o.lng # UNDEF)
    THEN Div(Hypot(Mul(Mul(Sub(lng, cur.position.lng), CosDeg(lat)), MetersPerDegreeRAF),
                   Mul(Sub(lat, cur.position.lat), MetersPerDegreeRAF)),
             deltaTime)
    ELSE IF o.groundSpeed = UNDEF THEN cur.velocity.groundSpeed
    ELSE o.groundSpeed

InferredHeading(o, cur, lat, lng) ==
    IF o.flightHeading = UNDEF /\ (o.lat # UNDEF \/ o.lng # UNDEF)
    THEN JsMod(Add(Atan2Deg(Sub(lng, cur.position.lng), Sub(lat, cur.position.lat)),
                   Num(360)),
               Num(360))
    ELSE IF o.flightHeading = UNDEF THEN cur.attitude.heading
    ELSE o.flightHeading

\* verticalSpeed and groundSpeed are never undefined where the pitch is inferred
InferredPitch(o, verticalSpeed, groundSpeed) ==
    IF o.pitchAttitude = UNDEF THEN Atan2Deg(verticalSpeed, groundSpeed)
    ELSE o.pitchAttitude

InferredState(o, cur, lat, lng, altitude, verticalSpeed, groundSpeed) ==
    [position |-> [lat |-> lat, lng |-> lng, altitude |-> altitude],
     attitude |-> [heading |-> InferredHeading(o, cur, lat, lng),
                   pitch |-> InferredPitch(o, verticalSpeed, groundSpeed),
                   roll |-> Nullish(o.rollAttitude, cur.attitude.roll)],
     velocity |-> [groundSpeed |-> groundSpeed, verticalSpeed |-> verticalSpeed]]

InferredMotion(o, cur, lat, lng, altitude, deltaTime) ==
    InferredState(o, cur, lat, lng, altitude,
                  InferredVerticalSpeed(o, cur, altitude, deltaTime),
                  InferredGroundSpeed(o, cur, lat, lng, deltaTime))

\* the state value an update of engine RAF builds from the observation o, the
\* current state value cur and deltaTime in seconds
Inferred_RAF(o, cur, deltaTime) ==
    InferredMotion(o, cur, Nullish(o.lat, cur.position.lat), Nullish(o.lng, cur.position.lng),
                   InferredAltitude(o, cur, deltaTime), deltaTime)

\* the first state of engine RAF: every omitted (or zero) field is 0
First_RAF(o) ==
    [position |-> [lat |-> OrElse(o.lat, Zero), lng |-> OrElse(o.lng, Zero),
                   altitude |-> OrElse(o.elevation, Zero)],
     attitude |-> [heading |-> OrElse(o.flightHeading, Zero),
                   pitch |-> OrElse(o.pitchAttitude, Zero),
                   roll |-> OrElse(o.rollAttitude, Zero)],
     velocity |-> [groundSpeed |-> OrElse(o.groundSpeed, Zero),
                   verticalSpeed |-> OrElse(o.verticalSpeed, Zero)]]

Smooth(old, sample) == Add(old, Mul(Sub(sample, old), PredictionSmoothingFactor))

\* _updateMotionDerivatives of engine RAF: the smoothed estimates
MotionDerivatives_RAF(prev, curr, deltaTime) ==
    LET cosLat == CosDeg(curr.position.lat)
        dx == Mul(Mul(Sub(curr.position.lng, prev.position.lng), cosLat), MetersPerDegreeRAF)
        dy == Mul(Sub(curr.position.lat, prev.position.lat), MetersPerDegreeRAF)
        dz == Sub(curr.position.altitude, prev.position.altitude)
        dHeading == _shortestAngleDifference(prev.attitude.heading, curr.attitude.heading)
        dPitch == Sub(curr.attitude.pitch, prev.attitude.pitch)
        dRoll == Sub(curr.attitude.roll, prev.attitude.roll)
    IN  [velocity |-> [x |-> Smooth(_velocitySmoothed.x, Div(dx, deltaTime)),
                       y |-> Smooth(_velocitySmoothed.y, Div(dy, deltaTime)),
                       z |-> Smooth(_velocitySmoothed.z, Div(dz, deltaTime))],
         angular |-> [heading |-> Smooth(_angularVelocitySmoothed.heading, Div(dHeading, deltaTime)),
                      pitch |-> Smooth(_angularVelocitySmoothed.pitch, Div(dPitch, deltaTime)),
                      roll |-> Smooth(_angularVelocitySmoothed.roll, Div(dRoll, deltaTime))]]

WithTime(ref, t) == [position |-> ref.position, attitude |-> ref.attitude,
                     velocity |-> ref.velocity, lastUpdateTime |-> t]

StoreState_RAF(ns, d) ==
    /\ _currentState' = WithTime(ns.ref, now + d)
    /\ heap' = Collect(ns.heap, Live(ns.ref, _currentState, NULL, NULL, returned))

StoreDerivatives_RAF(estimate, md) ==
    /\ _velocitySmoothed' = IF estimate THEN md.velocity ELSE _velocitySmoothed
    /\ _angularVelocitySmoothed' = IF estimate THEN md.angular ELSE _angularVelocitySmoothed

\* the assignments of an update of engine RAF that stores the state value v
Store_RAF(o, d, v, cur, deltaTime) ==
    /\ updates' = updates + 1
    /\ now' = now + d
    /\ last' = Call("updateFlightState", o)
    /\ threw' = "none"
    /\ lastAcceptedAt' = now + d
    /\ lastObserved' = v
    /\ _previousState' = _currentState
    /\ StoreState_RAF(NewState(heap, v.position, v.attitude, v.velocity), d)
    /\ StoreDerivatives_RAF(_currentState # NULL /\ Gt(deltaTime, Zero),
                            MotionDerivatives_RAF(cur, v, deltaTime))
    /\ UNCHANGED <<engine, calls, envVars, lifeVars, _interpolationState, _currentInterpolation, timeVars,
                   predVars, _velocity, _angularVelocity, returned, outVars, ticks, cleanRun>>

Update_RAF(o, d, cur, deltaTime) == Store_RAF(o, d, Inferred_RAF(o, cur, deltaTime), cur, deltaTime)

updateFlightState_RAF(o, d) ==
    /\ engine = "RAF"
    /\ updates < MaxUpdates
    /\ IF _currentState = NULL
       THEN Store_RAF(o, d, First_RAF(o), NULL, Zero)
       ELSE Update_RAF(o, d, Deref(heap, _currentState),
                       Div(Num(now + d - _currentState.lastUpdateTime), Num(1000)))

\* _predictCurrentState of engine RAF, on the state value s
_predictCurrentState_RAF(s, deltaTime) ==
    LET latChange == Div(Mul(_velocitySmoothed.y, deltaTime), MetersPerDegreeRAF)
        lngChange == Div(Mul(_velocitySmoothed.x, deltaTime),
                         Mul(MetersPerDegreeRAF, CosDeg(s.position.lat)))
        altChange == Mul(_velocitySmoothed.z, deltaTime)
        headingChange == Mul(_angularVelocitySmoothed.heading, deltaTime)
        pitchChange == Mul(_angularVelocitySmoothed.pitch, deltaTime)
        rollChange == Mul(_angularVelocitySmoothed.roll, deltaTime)
    IN  [position |-> [lat |-> Add(s.position.lat, latChange),
                       lng |-> Add(s.position.lng, lngChange),
                       altitude |-> Add(s.position.altitude, altChange)],
         attitude |-> [heading |-> JsMod(Add(Add(s.attitude.heading, headingChange), Num(360)),
                                         Num(360)),
                       pitch |-> Add(s.attitude.pitch, pitchChange),
                       roll |-> Add(s.attitude.roll, rollChange)],
         velocity |-> s.velocity,
         lastUpdateTime |-> s.lastUpdateTime]

\* requestAnimationFrame: a handle that is neither pending nor remembered
NewFrame(pending) == MinOf({h \in 1..(Cardinality(pending) + 2) : h \notin pending \cup {_frameId}})

\* one animation frame of the loop whose request h is pending:
\* _updateCameraFromState, then the next request
updateFrame_RAF(h) ==
    /\ engine = "RAF"
    /\ h \in timers
    /\ last' = Call("tick", NULL)
    /\ threw' = "none"
    /\ _frameId' = NewFrame(timers \ {h})
    /\ timers' = (timers \ {h}) \cup {NewFrame(timers \ {h})}
    /\ IF _currentState = NULL \/ _map # "map"
       THEN /\ jumpToCalls' = 0
            /\ UNCHANGED rendered
       ELSE /\ jumpToCalls' = 1
            /\ rendered' = _predictCurrentState_RAF(
                               Deref(heap, _currentState),
                               Div(Num(now - _currentState.lastUpdateTime), Num(1000)))
    /\ UNCHANGED <<engine, calls, envVars, now, _map, _container, _disposed, _updateInterval, interactions,
                   stateVars, timeVars, predVars, velVars, returned, updates, ticks,
                   lastAcceptedAt, lastObserved, cleanRun>>

onAdd_RAF ==
    /\ engine = "RAF"
    /\ Cardinality(timers) < MaxTimers
    /\ last' = Call("onAdd", NULL)
    /\ threw' = "none"
    /\ _map' = "map"
    /\ _container' = "div"
    /\ interactions' = "disabled"
    /\ _frameId' = NewFrame(timers)
    /\ timers' = timers \cup {NewFrame(timers)}
    /\ UNCHANGED <<engine, calls, envVars, now, _disposed, _updateInterval, stateVars, timeVars, predVars,
                   velVars, returned, outVars, updates, ticks, lastAcceptedAt, lastObserved, cleanRun>>

onRemove_RAF ==
    /\ engine = "RAF"
    /\ last' = Call("onRemove", NULL)
    \* _stopUpdate
    /\ timers' = timers \ {_frameId}
    /\ _frameId' = 0
    \* this._container.parentNode and this._map.dragRotate are read next
    /\ IF _container = "undefined" \/ _map # "map"
       THEN /\ threw' = "TypeError"
            /\ UNCHANGED <<_map, interactions>>
       ELSE /\ threw' = "none"
            /\ interactions' = "enabled"
            /\ _map' = "undefined"
    /\ UNCHANGED <<engine, calls, envVars, now, _container, _disposed, _updateInterval, stateVars, timeVars,
                   predVars, velVars, returned, outVars, updates, ticks, lastAcceptedAt, lastObserved,
                   cleanRun>>

(***************************************************************************)
(* Engine "MF": src/webpack.config.js lines 694-1329                       *)
(***************************************************************************)
\* timeSinceLastDerivCalc >= 5000 at clock reading t
CooldownOver_Always(t) == TRUE
CooldownOver(t) == t - _lastDerivativeCalcTime >= DerivativeCooldown

\* updateFlightState of engine MF, in a run of at most bound updates
Update_MF(o, d, bound) ==
    /\ engine = "MF"
    /\ updates < bound
    /\ updates' = updates + 1
    /\ now' = now + d
    /\ last' = Call("updateFlightState", o)
    /\ threw' = "none"
    /\ IF _map # "map"
       THEN UNCHANGED <<stateVars, timeVars, _velocity, _angularVelocity, lastAcceptedAt, lastObserved,
                        cleanRun>>
       ELSE LET deltaTime == Num(now + d - _lastUpdateTime)
                cur == Deref(heap, _currentState)
                v  == Observed(o, IF _currentState = NULL THEN CameraSeed ELSE cur)
                ns == NewState(heap, v.position, v.attitude, v.velocity)
                frames == MathMax(MathRound(Mul(Div(deltaTime, Num(1000)), Num(FRAMES_MF))),
                                  Num(MINIMUM_FRAMES))
                \* the shallow copies { ...x } keep the nested objects of x
                plan == NewPlan(_interpolationState, ns.ref, frames,
                                PlanDeltas(Deref(heap, _interpolationState), v, frames))
                estimate == /\ EstimatesEnabled
                            /\ _currentState # NULL
                            /\ CooldownOver(now + d)
                md == MotionDerivatives(cur, v, Div(deltaTime, Num(1000)))
            IN  /\ _lastUpdateTime' = now + d
                /\ lastAcceptedAt' = now + d
                /\ lastObserved' = v
                /\ _previousState' = _currentState
                /\ _currentState' = ns.ref
                /\ UNCHANGED _lastFrameTime
                /\ IF _interpolationState = NULL
                   THEN /\ _interpolationState' = ns.ref
                        /\ heap' = Collect(ns.heap, Live(ns.ref, _currentState, ns.ref,
                                                         _currentInterpolation, returned))
                        /\ UNCHANGED <<_currentInterpolation, _velocity, _angularVelocity,
                                       _lastDerivativeCalcTime, cleanRun>>
                   ELSE /\ _currentInterpolation' = plan
                        /\ cleanRun' = TRUE
                        /\ heap' = Collect(ns.heap, Live(ns.ref, _currentState,
                                                         _interpolationState, plan, returned))
                        /\ _velocity' = IF estimate THEN md.velocity ELSE _velocity
                        /\ _angularVelocity' = IF estimate THEN md.angular ELSE _angularVelocity
                        /\ _lastDerivativeCalcTime' =
                               IF estimate THEN now + d ELSE _lastDerivativeCalcTime
                        /\ UNCHANGED _interpolationState
    /\ UNCHANGED <<engine, calls, envVars, lifeVars, predVars, _velocitySmoothed, _angularVelocitySmoothed,
                   returned, outVars, ticks>>

updateFlightState_MF(o, d) == Update_MF(o, d, MaxUpdates)

\* the same call in the longer runs in which the estimates are computed twice
reestimatingUpdate_MF(o, d) == Update_MF(o, d, MaxEstimateUpdates)

\* _predictMovement of engine MF: the position and attitude objects of
\* _currentState are updated in place
PredictedPosition_MF(p, deltaTime) ==
    LET cosLat == MathMax(CosDeg(p.lat), Frac(1, 1000000000))
    IN  [lat |-> Add(p.lat, Div(Mul(_velocity.y, deltaTime), MetersPerDegree)),
         lng |-> Add(p.lng, Div(Mul(_velocity.x, deltaTime), Mul(MetersPerDegree, cosLat))),
         altitude |-> Add(p.altitude, Mul(_velocity.z, deltaTime))]

PredictedAttitude_MF(a, deltaTime) ==
    [heading |-> JsMod(Add(Add(a.heading, Mul(_angularVelocity.heading, deltaTime)), Num(360)),
                       Num(360)),
     pitch |-> Add(a.pitch, Mul(_angularVelocity.pitch, deltaTime)),
     roll |-> JsMod(Add(Add(a.roll, Mul(_angularVelocity.roll, deltaTime)), Num(360)),
                    Num(360))]

\* the timer callback: _updateFrame with _predictMovement or _interpolateFrame,
\* and _updateCamera
_updateFrame_MF ==
    /\ engine = "MF"
    /\ timers # {}
    /\ last' = Call("tick", NULL)
    /\ threw' = "none"
    /\ IF _disposed \/ _map # "map"
       THEN /\ jumpToCalls' = 0
            /\ UNCHANGED <<stateVars, rendered, _lastFrameTime, ticks, cleanRun>>
       ELSE LET deltaTimeSec == Div(Num(now - _lastFrameTime), Num(1000))
            IN
            /\ _lastFrameTime' = now
            /\ IF predict
               THEN /\ cleanRun' = FALSE
                    /\ IF _currentState = NULL
                       THEN /\ jumpToCalls' = 0
                            /\ UNCHANGED <<stateVars, rendered, ticks>>
                       ELSE LET h1 == [heap EXCEPT
                                         ![_currentState.position] =
                                             PredictedPosition_MF(@, deltaTimeSec),
                                         ![_currentState.attitude] =
                                             PredictedAttitude_MF(@, deltaTimeSec)]
                            IN  /\ heap' = h1
                                /\ rendered' = Deref(h1, _currentState)
                                /\ jumpToCalls' = 1
                                /\ UNCHANGED <<_currentState, _previousState,
                                               _interpolationState, _currentInterpolation,
                                               ticks>>
               ELSE IF _currentInterpolation = NULL \/ _interpolationState = NULL
               THEN /\ jumpToCalls' = IF _interpolationState = NULL THEN 0 ELSE 1
                    /\ rendered' = IF _interpolationState = NULL THEN rendered
                                   ELSE Deref(heap, _interpolationState)
                    /\ UNCHANGED <<stateVars, ticks, cleanRun>>
               ELSE LET plan == _currentInterpolation
                        done == Le(plan.remainingFrames, Zero)
                        sv == StepState(Deref(heap, _interpolationState), plan.deltas)
                        ns == NewState(heap, sv.position, sv.attitude, sv.velocity)
                        is == IF done THEN plan.target ELSE ns.ref
                        np == IF done THEN NULL
                              ELSE Consumed(plan)
                        h1 == IF done THEN heap ELSE ns.heap
                    IN  /\ ticks < MaxTicks
                        /\ ticks' = ticks + 1
                        /\ _interpolationState' = is
                        /\ _currentInterpolation' = np
                        /\ heap' = Collect(h1, Live(_currentState, _previousState, is, np,
                                                    returned))
                        /\ rendered' = Deref(h1, is)
                        /\ jumpToCalls' = 1
                        /\ UNCHANGED <<_currentState, _previousState, cleanRun>>
    /\ UNCHANGED <<engine, calls, envVars, now, lifeVars, _lastUpdateTime, _lastDerivativeCalcTime, predVars,
                   velVars, returned, updates, lastAcceptedAt, lastObserved>>

(***************************************************************************)
(* Attachment and disposal of the interval-timer engines (TS and MF)       *)
(***************************************************************************)
\* window.setInterval: a handle no live timer has
NewHandle(live) == MinOf({h \in 1..(Cardinality(live) + 1) : h \notin live})

onAdd_Interval ==
    /\ engine \in {"TS", "MF"}
    /\ last' = Call("onAdd", NULL)
    /\ _map' = "map"
    /\ _container' = "div"
    /\ interactions' = "disabled"
    /\ LET stopped == timers \ {_updateInterval}
       IN  IF _disposed
           THEN /\ timers' = stopped
                /\ _updateInterval' = 0
           ELSE /\ _updateInterval' = NewHandle(stopped)
                /\ timers' = stopped \cup {NewHandle(stopped)}
    /\ threw' = "none"
    /\ cleanRun' = FALSE
    /\ UNCHANGED <<engine, calls, envVars, now, _disposed, _frameId, stateVars, timeVars, predVars, velVars,
                   returned, outVars, updates, ticks, lastAcceptedAt, lastObserved>>

\* onRemove, that is _dispose
onRemove_Interval ==
    /\ engine \in {"TS", "MF"}
    /\ last' = Call("onRemove", NULL)
    /\ threw' = "none"
    /\ cleanRun' = FALSE
    /\ IF _disposed
       THEN UNCHANGED <<lifeVars, stateVars>>
       ELSE /\ timers' = timers \ {_updateInterval}
            /\ _updateInterval' = 0
            /\ interactions' = IF _map = "map" THEN "enabled" ELSE interactions
            /\ _container' = "null"
            /\ _map' = "null"
            /\ _currentState' = NULL
            /\ _currentInterpolation' = NULL
            /\ _disposed' = TRUE
            /\ heap' = Collect(heap, Live(NULL, _previousState, _interpolationState, NULL, returned))
            /\ UNCHANGED <<_frameId, _previousState, _interpolationState>>
    /\ UNCHANGED <<engine, calls, envVars, now, timeVars, predVars, velVars, returned, outVars, updates,
                   ticks, lastAcceptedAt, lastObserved>>

(***************************************************************************)
(* Calls common to the engines                                             *)
(***************************************************************************)
\* getState: a shallow copy { ...this._currentState }, or null
getState ==
    /\ calls < MaxCalls
    /\ calls' = calls + 1
    /\ last' = Call("getState", NULL)
    /\ returned' = _currentState
    /\ _currentState # returned
    /\ heap' = Collect(heap, Live(_currentState, _previousState, _interpolationState,
                                  _currentInterpolation, _currentState))
    /\ threw' = "none"
    /\ cleanRun' = FALSE
    /\ UNCHANGED <<engine, envVars, now, lifeVars, _currentState, _previousState, _interpolationState,
                   _currentInterpolation, timeVars, predVars, velVars, outVars, updates,
                   ticks, lastAcceptedAt, lastObserved>>

\* the caller assigns to a nested field of the object getState returned
callerAssigns(w) ==
    /\ returned # NULL
    /\ calls < MaxCalls
    /\ calls' = calls + 1
    /\ heap[returned[w.part]][w.field] # w.value
    /\ last' = Call("assign", NULL)
    /\ heap' = [heap EXCEPT ![returned[w.part]][w.field] = w.value]
    /\ threw' = "none"
    /\ cleanRun' = FALSE
    /\ UNCHANGED <<engine, envVars, now, lifeVars, _currentState, _previousState, _interpolationState,
                   _currentInterpolation, timeVars, predVars, velVars, returned, outVars,
                   updates, ticks, lastAcceptedAt, lastObserved>>

startPrediction ==
    /\ engine \in {"TS", "MF"}
    /\ ~predict
    /\ last' = Call("startPrediction", NULL)
    /\ predict' = TRUE
    /\ threw' = "none"
    /\ cleanRun' = FALSE
    /\ UNCHANGED <<engine, calls, envVars, now, lifeVars, stateVars, timeVars, shouldPredict,
                   _deltaIsCalculated, _currentDeltaTimeForPrediction, velVars, returned,
                   outVars, updates, ticks, lastAcceptedAt, lastObserved>>

stopPrediction ==
    /\ engine \in {"TS", "MF"}
    /\ predict
    /\ last' = Call("stopPrediction", NULL)
    /\ predict' = FALSE
    /\ _deltaIsCalculated' = IF engine = "TS" THEN FALSE ELSE _deltaIsCalculated
    /\ threw' = "none"
    /\ cleanRun' = FALSE
    /\ UNCHANGED <<engine, calls, envVars, now, lifeVars, stateVars, timeVars, shouldPredict,
                   _currentDeltaTimeForPrediction, velVars, returned, outVars, updates,
                   ticks, lastAcceptedAt, lastObserved>>

\* v || d for a v that is an object or undefined
ObjectOr(v, d) == IF v = UNDEF THEN d ELSE v

\* the offset setCameraMode stores: mode.offset || {0,0,0}, replaced for a
\* CHASE or ORBIT mode without an offset
ModeOffset_Zeros(mode) == ObjectOr(mode.offset, XYZ(0, 0, 0))
ModeOffset(mode) ==
    IF mode.type = "CHASE" /\ mode.offset = UNDEF THEN XYZ(0, -30, 10)
    ELSE IF mode.type = "ORBIT" /\ mode.offset = UNDEF THEN XYZ(0, -100, 50)
    ELSE ObjectOr(mode.offset, XYZ(0, 0, 0))

\* setCameraMode of the three engines; engine RAF also renders when it has a state
setCameraMode(mode) ==
    /\ calls < MaxCalls
    /\ calls' = calls + 1
    /\ last' = Call("setCameraMode", mode)
    /\ threw' = "none"
    /\ _cameraMode' = [type |-> mode.type,
                       offset |-> ModeOffset(mode),
                       orientation |-> ObjectOr(mode.orientation, HPR(0, 0, 0))]
    /\ IF engine = "RAF" /\ _currentState # NULL /\ _map = "map"
       THEN /\ jumpToCalls' = 1
            /\ rendered' = _predictCurrentState_RAF(
                               Deref(heap, _currentState),
                               Div(Num(now - _currentState.lastUpdateTime), Num(1000)))
       ELSE UNCHANGED outVars
    /\ UNCHANGED <<engine, elapses, now, lifeVars, stateVars, timeVars, predVars, velVars,
                   returned, updates, ticks, lastAcceptedAt, lastObserved, cleanRun>>

(***************************************************************************)
(* Camera placement.  The spherical trigonometry of _offsetPosition,       *)
(* _calculateHeadingToPoint and _calculatePitchToPoint is not evaluated: a *)
(* result of these is represented by the arguments that determine it.      *)
(***************************************************************************)
\* convertPitch: the flight pitch clamped to [-90, 90], taken from 90
convertPitch(flightPitch) ==
    Sub(Num(90), MathMax(Num(-90), MathMin(Num(90), flightPitch)))

\* new LngLat(lng, lat)
LngLat(lng, lat) == [lat |-> lat, lng |-> lng]

\* _offsetPosition(lat, lng, bearing, offsetX, offsetY), by its arguments
_offsetPosition(lat, lng, bearing, offsetX, offsetY) ==
    [from |-> LngLat(lng, lat), bearing |-> bearing, offsetX |-> offsetX, offsetY |-> offsetY]

\* _calculateChaseOffset: the base offset scaled by the ground speed of _currentState
_calculateChaseOffset(baseOffset) ==
    IF _currentState = NULL THEN baseOffset
    ELSE LET speed == Deref(heap, _currentState).velocity.groundSpeed
             speedFactor == MathMin(Div(speed, Num(100)), Num(1))
         IN  [x |-> baseOffset.x,
              y |-> Mul(baseOffset.y, Add(Num(1), Mul(speedFactor, Frac(1, 2)))),
              z |-> Mul(baseOffset.z, Add(Num(1), Mul(speedFactor, Frac(3, 10))))]

CockpitView(state, mode) ==
    [camPos |-> LngLat(state.position.lng, state.position.lat),
     camAlt |-> Add(state.position.altitude, mode.offset.z),
     heading |-> state.attitude.heading,
     pitch |-> convertPitch(state.attitude.pitch),
     roll |-> state.attitude.roll]

ChaseView(state, mode) ==
    [camPos |-> _offsetPosition(state.position.lat, state.position.lng,
                                state.attitude.heading,
                                _calculateChaseOffset(mode.offset).x,
                                _calculateChaseOffset(mode.offset).y),
     camAlt |-> Add(state.position.altitude, _calculateChaseOffset(mode.offset).z),
     heading |-> state.attitude.heading,
     pitch |-> convertPitch(Mul(state.attitude.pitch, Frac(1, 2))),
     roll |-> Mul(state.attitude.roll, Frac(1, 2))]

\* the ORBIT viewpoint: the camera on a circle around the object, at the phase
\* (performance.now() % 30000) / 30000 of a turn, looking at the object
OrbitView(state, mode, t) ==
    [camPos |-> _offsetPosition(state.position.lat, state.position.lng, Zero,
                                [cosOf |-> Frac(t % 30000, 30000),
                                 radiusSquared |-> Add(Mul(mode.offset.y, mode.offset.y),
                                                       Mul(mode.offset.x, mode.offset.x))],
                                [sinOf |-> Frac(t % 30000, 30000),
                                 radiusSquared |-> Add(Mul(mode.offset.y, mode.offset.y),
                                                       Mul(mode.offset.x, mode.offset.x))]),
     camAlt |-> Add(state.position.altitude, mode.offset.z),
     lookAt |-> LngLat(state.position.lng, state.position.lat),
     lookAtAltitude |-> state.position.altitude,
     roll |-> Zero]

FreeView_Attitude(state, mode) ==
    [camPos |-> LngLat(state.position.lng, state.position.lat),
     camAlt |-> state.position.altitude,
     heading |-> state.attitude.heading,
     pitch |-> state.attitude.pitch,
     roll |-> state.attitude.roll]
FreeView(state, mode) ==
    [camPos |-> LngLat(state.position.lng, state.position.lat),
     camAlt |-> state.position.altitude,
     heading |-> mode.orientation.heading,
     pitch |-> mode.orientation.pitch,
     roll |-> mode.orientation.roll]

\* _calculateCameraPosition(state) under the active mode, at clock reading t
_calculateCameraPosition(state, t) ==
    IF state = NULL \/ (engine # "MF" /\ _currentState = NULL) THEN NULL
    ELSE CASE _cameraMode.type = "COCKPIT" -> CockpitView(state, _cameraMode)
           [] _cameraMode.type = "CHASE" -> ChaseView(state, _cameraMode)
           [] _cameraMode.type = "ORBIT" -> OrbitView(state, _cameraMode, t)
           [] OTHER -> FreeView(state, _cameraMode)

\* the viewpoint handed to map.jumpTo by the call that rendered last: the
\* call renders last of all, so the mode, the clock and _currentState it used
\* are those of the state it leaves
Viewpoint == _calculateCameraPosition(rendered, now)

\* performance.now() advances by d milliseconds while nothing is called
Elapse(d) ==
    /\ elapses < MaxElapses
    /\ elapses' = elapses + 1
    /\ now' = now + d
    /\ last' = Call("elapse", NULL)
    /\ UNCHANGED <<engine, calls, _cameraMode, lifeVars, stateVars, timeVars, predVars, velVars,
                   returned, threw, outVars, updates, ticks, lastAcceptedAt, lastObserved, cleanRun>>

Next ==
    \/ \E a \in Feed : updateFlightState_TS(a.obs, a.dt)
    \/ \E a \in FeedRAF : updateFlightState_RAF(a.obs, a.dt)
    \/ \E a \in Feed : updateFlightState_MF(a.obs, a.dt)
    \/ _updateFrame_TS
    \/ \E h \in timers : updateFrame_RAF(h)
    \/ _updateFrame_MF
    \/ onAdd_Interval
    \/ onAdd_RAF
    \/ onRemove_Interval
    \/ onRemove_RAF

Spec == Init /\ [][Next]_vars

\* the engines with a caller that keeps and writes to what getState() returned
NextCaller ==
    \/ \E a \in FeedCaller : updateFlightState_TS(a.obs, a.dt)
    \/ \E a \in FeedCaller : updateFlightState_RAF(a.obs, a.dt)
    \/ \E a \in FeedCaller : updateFlightState_MF(a.obs, a.dt)
    \/ _updateFrame_TS
    \/ \E h \in timers : updateFrame_RAF(h)
    \/ _updateFrame_MF
    \/ onAdd_Interval
    \/ onAdd_RAF
    \/ onRemove_Interval
    \/ onRemove_RAF
    \/ getState
    \/ \E w \in CallerWrites : callerAssigns(w)

SpecCaller == Init /\ [][NextCaller]_vars

\* the engines with prediction switched on and off and time passing between calls
NextPredict ==
    \/ \E a \in FeedPredict : updateFlightState_TS(a.obs, a.dt)
    \/ \E a \in FeedPredictRAF : updateFlightState_RAF(a.obs, a.dt)
    \/ \E a \in FeedPredict : updateFlightState_MF(a.obs, a.dt)
    \/ _updateFrame_TS
    \/ \E h \in timers : updateFrame_RAF(h)
    \/ _updateFrame_MF
    \/ onAdd_Interval
    \/ onAdd_RAF
    \/ startPrediction
    \/ stopPrediction
    \/ \E d \in ClockSteps : Elapse(d)

SpecPredict == Init /\ [][NextPredict]_vars

\* the engines with a caller that changes the camera mode
NextCamera ==
    \/ \E a \in FeedCamera : updateFlightState_TS(a.obs, a.dt)
    \/ \E a \in FeedCamera : updateFlightState_RAF(a.obs, a.dt)
    \/ \E a \in FeedCamera : updateFlightState_MF(a.obs, a.dt)
    \/ _updateFrame_TS
    \/ \E h \in timers : updateFrame_RAF(h)
    \/ _updateFrame_MF
    \/ onAdd_Interval
    \/ onAdd_RAF
    \/ \E mode \in CameraModes : setCameraMode(mode)

SpecCamera == Init /\ [][NextCamera]_vars

\* the engines rendering under each camera mode
NextView ==
    \/ \E a \in FeedView : updateFlightState_TS(a.obs, a.dt)
    \/ \E a \in FeedView : updateFlightState_RAF(a.obs, a.dt)
    \/ \E a \in FeedView : updateFlightState_MF(a.obs, a.dt)
    \/ _updateFrame_TS
    \/ \E h \in timers : updateFrame_RAF(h)
    \/ _updateFrame_MF
    \/ onAdd_Interval
    \/ onAdd_RAF
    \/ \E mode \in ViewModes : setCameraMode(mode)

SpecView == Init /\ [][NextView]_vars

\* engine MF over runs long enough for two velocity estimates
NextEstimate ==
    \/ \E a \in FeedEstimate : reestimatingUpdate_MF(a.obs, a.dt)
    \/ _updateFrame_MF
    \/ onAdd_Interval
    \/ startPrediction
    \/ stopPrediction

SpecEstimate == Init /\ [][NextEstimate]_vars

\* the interval-timer engines with updates that overtake a live plan
NextReplan ==
    \/ \E a \in FeedReplan : updateFlightState_TS(a.obs, a.dt)
    \/ \E a \in FeedReplan : reestimatingUpdate_MF(a.obs, a.dt)
    \/ _updateFrame_TS
    \/ _updateFrame_MF
    \/ onAdd_Interval

SpecReplan == Init /\ [][NextReplan]_vars

\* a utility method applied to arguments, and what it returned
Applied(f, args, result) ==
    [op |-> f, obs |-> args, result |-> result, pre |-> NULL, prevAt |-> -1,
     prevObserved |-> NULL, prevEstimateAt |-> -1, elevation |-> UNDEF, after |-> "",
     life |-> NULL]

\* the utilities are pure: a run applies one of them, once, to a fresh instance
shortestAngleDelta(start, end) ==
    /\ engine \in {"TS", "MF"}
    /\ last.op = "constructor"
    /\ last' = Applied("_calculateShortestAngleDelta", [start |-> start, end |-> end],
                       _calculateShortestAngleDelta(start, end))
    /\ UNCHANGED <<engine, calls, envVars, now, lifeVars, stateVars, timeVars, predVars, velVars,
                   returned, threw, outVars, updates, ticks, lastAcceptedAt, lastObserved,
                   cleanRun>>

headingToPoint(fromLat, fromLng, toLat, toLng) ==
    /\ last.op = "constructor"
    /\ last' = Applied("_calculateHeadingToPoint",
                       [fromLat |-> fromLat, fromLng |-> fromLng, toLat |-> toLat, toLng |-> toLng],
                       _calculateHeadingToPoint(engine, fromLat, fromLng, toLat, toLng))
    /\ UNCHANGED <<engine, calls, envVars, now, lifeVars, stateVars, timeVars, predVars, velVars,
                   returned, threw, outVars, updates, ticks, lastAcceptedAt, lastObserved,
                   cleanRun>>

\* the geodesy utilities of a constructed instance applied to angles and points
NextGeodesy ==
    \/ \E start \in Angles, end \in Angles : shortestAngleDelta(start, end)
    \/ \E p \in PointPairs : headingToPoint(p.fromLat, p.fromLng, p.toLat, p.toLng)

SpecGeodesy == Init /\ [][NextGeodesy]_vars

\* the mode of the runs over all public methods
PublicModes == { [type |-> "CHASE", offset |-> UNDEF, orientation |-> UNDEF] }

\* the interval-timer engines driven through all their public methods; engine
\* MF is fed the observations from which it estimates a velocity
NextPublic ==
    \/ \E a \in FeedView : updateFlightState_TS(a.obs, a.dt)
    \/ \E a \in FeedEstimate : updateFlightState_MF(a.obs, a.dt)
    \/ _updateFrame_TS
    \/ _updateFrame_MF
    \/ onAdd_Interval
    \/ onRemove_Interval
    \/ startPrediction
    \/ stopPrediction
    \/ \E mode \in PublicModes :
           engine \in {"TS", "MF"} /\ calls < MaxModeChanges /\ setCameraMode(mode)

SpecPublic == Init /\ [][NextPublic]_vars

\* instances constructed with and without a camera mode, and mode changes
NextConstruct ==
    \/ \E mode \in ViewModes : setCameraMode(mode)
    \/ \E a \in FeedCamera : updateFlightState_TS(a.obs, a.dt)
    \/ \E a \in FeedCamera : updateFlightState_RAF(a.obs, a.dt)
    \/ \E a \in FeedCamera : updateFlightState_MF(a.obs, a.dt)
    \/ onAdd_Interval
    \/ onAdd_RAF

SpecConstruct == InitCamera /\ [][NextConstruct]_vars

(***************************************************************************)
(* Properties                                                              *)
(***************************************************************************)
Cur == Deref(heap, _currentState)
Prev == Deref(heap, _previousState)

\* the state the ticks interpolate: _currentState in engine TS,
\* _interpolationState in engine MF
Interpolated == IF engine = "TS" THEN Cur ELSE Deref(heap, _interpolationState)

Same8(a, b) == a # NULL /\ b # NULL /\ a.position = b.position /\ a.attitude = b.attitude
               /\ a.velocity = b.velocity

PositionOnly(o) ==
    /\ o.lat # UNDEF /\ o.lng # UNDEF /\ o.elevation # UNDEF
    /\ o.flightHeading = UNDEF /\ o.pitchAttitude = UNDEF /\ o.rollAttitude = UNDEF
    /\ o.groundSpeed = UNDEF /\ o.verticalSpeed = UNDEF

SuppliedStored(o, s) ==
    /\ o.lat # UNDEF => s.position.lat = o.lat
    /\ o.lng # UNDEF => s.position.lng = o.lng
    /\ o.elevation # UNDEF => s.position.altitude = o.elevation
    /\ o.flightHeading # UNDEF => s.attitude.heading = o.flightHeading
    /\ o.pitchAttitude # UNDEF => s.attitude.pitch = o.pitchAttitude
    /\ o.rollAttitude # UNDEF => s.attitude.roll = o.rollAttitude
    /\ o.groundSpeed # UNDEF => s.velocity.groundSpeed = o.groundSpeed
    /\ o.verticalSpeed # UNDEF => s.velocity.verticalSpeed = o.verticalSpeed

Updated == last.op = "updateFlightState"

\* C1: in every engine, for an engine constructed without initialPosition, the
\* first updateFlightState call that supplies lat, lng and elevation and omits
\* every other field stores those three values and 0 for heading, pitch, roll,
\* groundSpeed and verticalSpeed, creates no interpolation plan, and makes
\* getState() return that state, whether or not the control has been added
\* to a map.
C1_FirstObservationStored ==
    (Updated /\ updates = 1 /\ last.pre.cur = NULL /\ PositionOnly(last.obs)) =>
        /\ _currentState # NULL
        /\ Cur.position = [lat |-> last.obs.lat, lng |-> last.obs.lng,
                           altitude |-> last.obs.elevation]
        /\ Cur.attitude = [heading |-> Zero, pitch |-> Zero, roll |-> Zero]
        /\ Cur.velocity = [groundSpeed |-> Zero, verticalSpeed |-> Zero]
        /\ _currentInterpolation = NULL

\* C2: in engine TS, a first updateFlightState call (no current state) that
\* omits lat, lng or elevation while no map is attached raises no exception
\* and stores 0 for each missing position field.
C2_FirstObservationWithoutMap ==
    (Updated /\ engine = "TS" /\ last.pre.cur = NULL /\ NeedsCamera(last.obs) /\ _map # "map") =>
        /\ threw = "none"
        /\ _currentState # NULL
        /\ Cur.position = [lat |-> Nullish(last.obs.lat, Zero),
                           lng |-> Nullish(last.obs.lng, Zero),
                           altitude |-> Nullish(last.obs.elevation, Zero)]

\* C3: in engine TS, the deltaTime that sizes a plan is the time elapsed since
\* the previous accepted updateFlightState call: whatever time passed between
\* construction and the first update, an update arriving exactly 1 second
\* after the previous update creates a plan with remainingFrames = 20.
C3_PlanSizedByUpdateGap ==
    (Updated /\ engine = "TS" /\ last.pre.cur # NULL /\ last.prevAt >= 0
        /\ now - last.prevAt = 1000) =>
        /\ _currentInterpolation # NULL
        /\ _currentInterpolation.remainingFrames = Num(20)

FiniteDeltas(d) ==
    /\ \A f \in {"lat", "lng", "altitude"} : IsFinite(d.position[f])
    /\ \A f \in {"heading", "pitch", "roll"} : IsFinite(d.attitude[f])
    /\ \A f \in {"groundSpeed", "verticalSpeed"} : IsFinite(d.velocity[f])

\* C4: in engine TS, every plan created by updateFlightState has a frame count
\* of at least 3, however soon after construction or after the previous
\* update the call arrives, so no per-frame delta stored in a plan is the
\* result of a division by zero.
C4_PlanHasMinimumFrames ==
    (Updated /\ engine = "TS" /\ _currentInterpolation # NULL) =>
        /\ Ge(_currentInterpolation.remainingFrames, Num(3))
        /\ FiniteDeltas(_currentInterpolation.deltas)

\* C5: in the interval-timer engines TS and MF, when a plan is created with N
\* remaining frames and exactly N interpolating ticks run with no other call
\* in between, the interpolated state equals the plan's target in every one
\* of the eight fields, for every start/target pair and every frame count N.
C5_InterpolationReachesTarget ==
    (engine \in {"TS", "MF"} /\ cleanRun /\ _currentInterpolation # NULL
        /\ _currentInterpolation.remainingFrames = Zero) =>
        Same8(Interpolated, PlanTarget)

\* C6: in engine MF, every accepted updateFlightState call made while a prior
\* state exists creates an interpolation plan towards the observed state; for
\* an engine constructed with initialPosition, the first accepted update
\* creates a plan that starts at the initial position instead of snapping.
C6_PlanForEveryUpdateWithPriorState ==
    (Updated /\ engine = "MF" /\ _map = "map" /\ last.pre.cur # NULL) =>
        /\ _currentInterpolation # NULL
        /\ Same8(PlanTarget, Cur)
        /\ last.prevAt < 0 => Same8(PlanStart, last.pre.cur)

\* C7: in engine TS, after an updateFlightState call made while a state
\* already exists, _previousState is the state that was current before the
\* call and the current state is the new state built from the observation:
\* getState() returns every supplied field with the observed value.
C7_UpdateOverwritesCurrentState ==
    (Updated /\ engine = "TS" /\ last.pre.cur # NULL) =>
        /\ Prev = last.pre.cur
        /\ SuppliedStored(last.obs, Cur)

\* C8: in every engine, assigning to a field of the object getState()
\* returned, the nested position, attitude and velocity fields included,
\* changes neither the engine's current state, nor its previous state, nor
\* the start or target of the live plan, nor what a later getState() returns.
C8_ReturnedStateIsDetached ==
    last.op = "assign" => View = last.pre

\* the instant deltaTime is measured from in engine RAF: the previous accepted
\* update, or the construction that set the initial position
Since == IF last.prevAt >= 0 THEN last.prevAt ELSE 0

\* C9: in engine RAF, for an update made while a state exists: if the update
\* omits elevation but supplies verticalSpeed v, the new altitude is the
\* previous altitude + v * deltaTime, deltaTime being the seconds elapsed
\* since the previous accepted update; if it omits both, the altitude is held.
C9_AltitudeInference ==
    (Updated /\ engine = "RAF" /\ last.pre.cur # NULL /\ last.obs.elevation = UNDEF) =>
        IF last.obs.verticalSpeed # UNDEF
        THEN Cur.position.altitude =
                 Add(last.pre.cur.position.altitude,
                     Mul(last.obs.verticalSpeed, Frac(now - Since, 1000)))
        ELSE Cur.position.altitude = last.pre.cur.position.altitude

\* an update of engine RAF integrated a supplied vertical speed over a second,
\* and one held the altitude
C9_Witness ==
    /\ Updated /\ engine = "RAF" /\ last.pre.cur # NULL
    /\ last.obs.elevation = UNDEF /\ last.obs.verticalSpeed = Num(5)
    /\ now - Since = 1000
    /\ Cur.position.altitude = Num(1005)

Displaced == \/ Cur.position.lat # last.pre.cur.position.lat
             \/ Cur.position.lng # last.pre.cur.position.lng

\* C10: in engine RAF, for an update that omits flightHeading: when the
\* supplied lat/lng differ from the previous position the new heading is the
\* bearing of the displacement (0 = north, 90 = east, in [0,360)); when there
\* is no displacement (lat/lng omitted, or supplied but equal to the previous
\* position) the heading is held at its previous value.
C10_HeadingInference ==
    (Updated /\ engine = "RAF" /\ last.pre.cur # NULL /\ last.obs.flightHeading = UNDEF) =>
        IF Displaced
        THEN LET dLat == Sub(Cur.position.lat, last.pre.cur.position.lat)
                 dLng == Sub(Cur.position.lng, last.pre.cur.position.lng)
             IN  /\ Ge(Cur.attitude.heading, Zero) /\ Lt(Cur.attitude.heading, Num(360))
                 /\ (dLng = Zero /\ Gt(dLat, Zero)) => Cur.attitude.heading = Zero
                 /\ (dLat = Zero /\ Gt(dLng, Zero)) => Cur.attitude.heading = Num(90)
                 /\ (dLng = Zero /\ Lt(dLat, Zero)) => Cur.attitude.heading = Num(180)
                 /\ (dLat = Zero /\ Lt(dLng, Zero)) => Cur.attitude.heading = Num(270)
        ELSE Cur.attitude.heading = last.pre.cur.attitude.heading

RollOnly(o) ==
    /\ o.rollAttitude # UNDEF
    /\ o.lat = UNDEF /\ o.lng = UNDEF /\ o.elevation = UNDEF /\ o.flightHeading = UNDEF
    /\ o.pitchAttitude = UNDEF /\ o.groundSpeed = UNDEF /\ o.verticalSpeed = UNDEF

\* C11: in engine RAF, an update that supplies only rollAttitude changes, of
\* the stored motion state, only roll and lastUpdateTime: pitch, heading, lat,
\* lng, altitude, groundSpeed and verticalSpeed are held at their previous
\* values.
C11_RollOnlyUpdateHoldsTheRest ==
    (Updated /\ engine = "RAF" /\ last.pre.cur # NULL /\ RollOnly(last.obs)) =>
        /\ Cur.attitude.roll = last.obs.rollAttitude
        /\ Cur.attitude.pitch = last.pre.cur.attitude.pitch
        /\ Cur.attitude.heading = last.pre.cur.attitude.heading
        /\ Cur.position = last.pre.cur.position
        /\ Cur.velocity = last.pre.cur.velocity

FiniteState(s) ==
    /\ \A f \in {"lat", "lng", "altitude"} : IsFinite(s.position[f])
    /\ \A f \in {"heading", "pitch", "roll"} : IsFinite(s.attitude[f])
    /\ \A f \in {"groundSpeed", "verticalSpeed"} : IsFinite(s.velocity[f])

\* C12: in engine RAF, when an update arrives with deltaTime = 0 (the clock
\* reading of the previous accepted update), every derivative-dependent
\* inference is skipped: an omitted verticalSpeed or groundSpeed is held at
\* its previous value even if elevation or lat/lng are supplied, and no
\* stored field is the result of a division by zero.
C12_ZeroDeltaTimeHoldsSpeeds ==
    (Updated /\ engine = "RAF" /\ last.pre.cur # NULL /\ FiniteState(last.pre.cur)
        /\ now = last.prevAt) =>
        /\ last.obs.verticalSpeed = UNDEF =>
               Cur.velocity.verticalSpeed = last.pre.cur.velocity.verticalSpeed
        /\ last.obs.groundSpeed = UNDEF =>
               Cur.velocity.groundSpeed = last.pre.cur.velocity.groundSpeed
        /\ FiniteState(Cur)

FullySpecified(o) ==
    \A f \in {"lat", "lng", "elevation", "flightHeading", "groundSpeed", "verticalSpeed",
              "pitchAttitude", "rollAttitude"} : o[f] # UNDEF

FiniteEstimates(e) ==
    /\ \A f \in {"x", "y", "z"} : IsFinite(e.velocity[f]) /\ IsFinite(e.velocitySmoothed[f])
    /\ \A f \in {"heading", "pitch", "roll"} :
           IsFinite(e.angular[f]) /\ IsFinite(e.angularSmoothed[f])

\* C13: in engine RAF, and in engine MF constructed with predict: true, when a
\* fully specified observation is passed to updateFlightState at the clock
\* reading of the previous accepted update (itself fully specified, so the
\* stored state is finite), the call raises no exception, leaves the velocity
\* and angular-velocity estimates at their previous values, and divides by
\* zero nowhere: the plan deltas and the estimates stay finite.
C13_ZeroElapsedUpdateHoldsEstimates ==
    (Updated /\ (engine = "RAF" \/ (engine = "MF" /\ shouldPredict))
        /\ last.pre.cur # NULL /\ FiniteState(last.pre.cur)
        /\ FiniteEstimates(last.pre.estimates)
        /\ FullySpecified(last.obs) /\ now = last.prevAt) =>
        /\ threw = "none"
        /\ Estimates = last.pre.estimates
        /\ FiniteEstimates(Estimates)
        /\ _currentInterpolation # NULL =>
               \A f \in DOMAIN _currentInterpolation.deltas :
                   IsFinite(_currentInterpolation.deltas[f])

Ticked == last.op = "tick"

\* C14: in engine TS, every invocation of the timer callback _updateFrame
\* terminates normally and hands at most one viewpoint to the renderer (at
\* most one jumpTo call), in every reachable state, prediction on or off.
C14_TickRendersAtMostOnce ==
    (Ticked /\ engine = "TS") => (threw = "none" /\ jumpToCalls <= 1)

\* C15: in engine TS, every tick that fires while the control is attached
\* (map present, not disposed) and a current state exists hands a viewpoint
\* to the renderer, whether or not a plan is live and whether or not
\* prediction is on.
C15_AttachedTickRenders ==
    (Ticked /\ engine = "TS" /\ _map = "map" /\ ~_disposed /\ Cur # NULL) =>
        (jumpToCalls >= 1 /\ threw = "none")

\* C16: in engine MF exactly one of interpolation and prediction governs each
\* tick of the attached control: with predict = true the rendered state is the
\* extrapolated _currentState and the plan's remainingFrames and
\* _interpolationState are as before the tick; with predict = false the
\* rendered state is _interpolationState and _currentState is as before the
\* tick; stopPrediction leaves the plan at the frame where it was paused.
C16_OneModeGovernsTick ==
    /\ (Ticked /\ engine = "MF" /\ _map = "map" /\ ~_disposed /\ predict /\ Cur # NULL) =>
           /\ rendered = Cur
           /\ PlanFrames = last.pre.remainingFrames
           /\ Deref(heap, _interpolationState) = last.pre.interp
    /\ (Ticked /\ engine = "MF" /\ _map = "map" /\ ~_disposed /\ ~predict
            /\ _interpolationState # NULL) =>
           /\ rendered = Deref(heap, _interpolationState)
           /\ Cur = last.pre.cur
    /\ (last.op = "stopPrediction" /\ engine = "MF") =>
           /\ PlanFrames = last.pre.remainingFrames
           /\ Deref(heap, _interpolationState) = last.pre.interp

InTurn(x) == IsFinite(x) /\ Ge(x, Zero) /\ Lt(x, Num(360))

\* C17: in engine RAF, on every frame that renders, the predicted heading and
\* the predicted roll handed to camera placement lie in [0,360) whenever the
\* stored heading and roll do, whatever the angular-velocity estimates and
\* the time elapsed since the last update; the predicted pitch is the stored
\* pitch plus rate times elapsed time, not wrapped.
C17_PredictedHeadingAndRollWrapped ==
    (Ticked /\ engine = "RAF" /\ jumpToCalls = 1 /\ Cur # NULL
        /\ InTurn(Cur.attitude.heading) /\ InTurn(Cur.attitude.roll)) =>
        /\ InTurn(rendered.attitude.heading)
        /\ InTurn(rendered.attitude.roll)
        /\ rendered.attitude.pitch =
               Add(Cur.attitude.pitch,
                   Mul(_angularVelocitySmoothed.pitch,
                       Div(Num(now - _currentState.lastUpdateTime), Num(1000))))

ZeroEstimates ==
    /\ \A f \in {"x", "y", "z"} : _velocity[f] = Zero
    /\ \A f \in {"heading", "pitch", "roll"} : _angularVelocity[f] = Zero

\* C18: in engine MF, a tick taken while prediction is on and all six
\* velocity estimates are zero leaves the position and the attitude of the
\* current state exactly as they were before the tick, for every stored state.
C18_ZeroVelocityPredictionHolds ==
    (Ticked /\ engine = "MF" /\ predict /\ ZeroEstimates /\ Cur # NULL) =>
        Same8(Cur, last.pre.cur)

\* C19: in the interval-timer engines TS and MF, in every reachable state the
\* heading and the roll of the stored current state and of the interpolated
\* state lie in [0,360), whatever flightHeading and rollAttitude values were
\* observed and however updates and ticks interleave.
C19_StoredAnglesNormalized ==
    engine \in {"TS", "MF"} =>
        /\ Cur # NULL => (InTurn(Cur.attitude.heading) /\ InTurn(Cur.attitude.roll))
        /\ Interpolated # NULL =>
               (InTurn(Interpolated.attitude.heading) /\ InTurn(Interpolated.attitude.roll))

ModeSet == last.op = "setCameraMode"

\* C20: in every engine, setCameraMode(mode) replaces the whole active mode:
\* afterwards the active mode has the type of mode and a defined offset and
\* orientation; an omitted offset is {0,-30,10} for CHASE, {0,-100,50} for
\* ORBIT and {0,0,0} for COCKPIT and FREE; an omitted orientation is {0,0,0};
\* a supplied offset or orientation is kept as given; nothing of the previous
\* mode remains, the active mode being determined by the argument alone.
C20_SetCameraModeReplacesMode ==
    ModeSet =>
        /\ threw = "none"
        /\ DOMAIN _cameraMode = {"type", "offset", "orientation"}
        /\ _cameraMode.type = last.obs.type
        /\ _cameraMode.offset # UNDEF /\ _cameraMode.orientation # UNDEF
        /\ last.obs.offset # UNDEF => _cameraMode.offset = last.obs.offset
        /\ last.obs.orientation # UNDEF => _cameraMode.orientation = last.obs.orientation
        /\ last.obs.orientation = UNDEF => _cameraMode.orientation = HPR(0, 0, 0)
        /\ (last.obs.offset = UNDEF /\ last.obs.type = "CHASE") =>
               _cameraMode.offset = XYZ(0, -30, 10)
        /\ (last.obs.offset = UNDEF /\ last.obs.type = "ORBIT") =>
               _cameraMode.offset = XYZ(0, -100, 50)
        /\ (last.obs.offset = UNDEF /\ last.obs.type \in {"COCKPIT", "FREE"}) =>
               _cameraMode.offset = XYZ(0, 0, 0)

\* the second mode change of a run, to an ORBIT mode without offset or orientation
C20_Witness ==
    /\ ModeSet /\ calls = 2
    /\ last.obs = [type |-> "ORBIT", offset |-> UNDEF, orientation |-> UNDEF]
    /\ _cameraMode = [type |-> "ORBIT", offset |-> XYZ(0, -100, 50),
                      orientation |-> HPR(0, 0, 0)]

\* the offset the claim C21 describes for ground speed g
ScaledOffset(baseOffset, g) ==
    [x |-> baseOffset.x,
     y |-> Mul(baseOffset.y, Add(Num(1), Mul(MathMin(Div(g, Num(100)), Num(1)), Frac(1, 2)))),
     z |-> Mul(baseOffset.z, Add(Num(1), Mul(MathMin(Div(g, Num(100)), Num(1)), Frac(3, 10))))]

\* C21: in engine MF the CHASE viewpoint is a function of the rendered state
\* and the mode only: on every rendering tick, with g >= 0 the ground speed of
\* the state being rendered, the offset used is
\* (x, y*(1+min(g/100,1)*0.5), z*(1+min(g/100,1)*0.3)), also on ticks in the
\* middle of an interpolation.
C21_ChaseOffsetFollowsRenderedSpeed ==
    (Ticked /\ engine = "MF" /\ jumpToCalls = 1 /\ _cameraMode.type = "CHASE"
        /\ IsFinite(rendered.velocity.groundSpeed)
        /\ Ge(rendered.velocity.groundSpeed, Zero)) =>
        /\ Viewpoint.camPos.offsetX =
               ScaledOffset(_cameraMode.offset, rendered.velocity.groundSpeed).x
        /\ Viewpoint.camPos.offsetY =
               ScaledOffset(_cameraMode.offset, rendered.velocity.groundSpeed).y
        /\ Viewpoint.camAlt =
               Add(rendered.position.altitude,
                   ScaledOffset(_cameraMode.offset, rendered.velocity.groundSpeed).z)

\* motion states at the position of s with other attitudes and speeds
SamePlace(s) ==
    { [position |-> s.position, attitude |-> a, velocity |-> v] :
          a \in {HPR(0, 0, 0), HPR(350, 5, 10), HPR(90, -10, 180)},
          v \in {[groundSpeed |-> Zero, verticalSpeed |-> Zero],
                 [groundSpeed |-> Num(200), verticalSpeed |-> Num(5)]} }

\* C22: in FREE mode the viewpoint does not depend on the attitude or the
\* speed of the object: on every rendering tick, _calculateCameraPosition gives
\* the same result for every motion state at the position of the rendered
\* one, namely that position and altitude with the heading, pitch and roll of
\* the mode's orientation.
C22_FreeViewIgnoresAttitude ==
    (Ticked /\ jumpToCalls >= 1 /\ _cameraMode.type = "FREE") =>
        /\ Viewpoint = [camPos |-> LngLat(rendered.position.lng, rendered.position.lat),
                        camAlt |-> rendered.position.altitude,
                        heading |-> _cameraMode.orientation.heading,
                        pitch |-> _cameraMode.orientation.pitch,
                        roll |-> _cameraMode.orientation.roll]
        /\ \A s \in SamePlace(rendered) : _calculateCameraPosition(s, now) = Viewpoint

\* a tick that renders a state with heading 350 in FREE mode with orientation (10, 20, 30)
C22_Witness ==
    /\ Ticked /\ jumpToCalls >= 1 /\ _cameraMode.type = "FREE"
    /\ _cameraMode.orientation = HPR(10, 20, 30)
    /\ rendered.attitude.heading = Num(350)
    /\ Viewpoint.heading = Num(10)

Removed == last.op = "onRemove"

\* C23: in every engine, disposal is idempotent: an onRemove call that
\* directly follows another onRemove call raises no exception, changes no
\* field of the engine (attachment, tick source, motion states, plan,
\* estimates) and makes no call on the map or the DOM (the map interactions
\* and the container are as the first call left them).
C23_DisposalIdempotent ==
    (Removed /\ last.after = "onRemove") =>
        /\ threw = "none"
        /\ Life = last.life
        /\ View = last.pre

\* C24: in the interval-timer engines TS and MF, in the state onRemove
\* returns in, the engine holds no motion state: the current state, the
\* previous state, the interpolated state and the plan are all null.
C24_DisposalReleasesStates ==
    (Removed /\ engine \in {"TS", "MF"}) =>
        /\ _currentState = NULL
        /\ _previousState = NULL
        /\ _interpolationState = NULL
        /\ _currentInterpolation = NULL

Added == last.op = "onAdd"

\* C25: in the interval-timer engines TS and MF, detaching and re-attaching
\* resumes cleanly: after an onRemove directly followed by an onAdd on the
\* same instance, the tick source is running again, the engine holds the
\* current state it held before the onRemove, and no plan is left live.
C25_ReattachResumes ==
    (Added /\ last.after = "onRemove" /\ engine \in {"TS", "MF"}) =>
        /\ _updateInterval \in timers
        /\ Cur = last.pre.cur
        /\ _currentInterpolation = NULL

\* C26: in every engine, after any sequence of onAdd and onRemove calls at
\* most one tick source (interval timer or animation-frame loop) is scheduled
\* for the instance, and in the state onRemove returns in none is scheduled.
C26_AtMostOneTickSource ==
    /\ Cardinality(timers) <= 1
    /\ Removed => timers = {}

\* the state an update was asked to move to: the observation over the prior state
ObservedNow == Observed(last.obs, last.pre.cur)

\* C27: in engine TS constructed with predict: true, after an
\* updateFlightState call made with a prior state and deltaTime > 0, the north
\* component of the velocity estimate is
\* (observed lat - prior lat) * 110574.3 / (deltaTime in seconds), and the
\* vertical component (observed altitude - prior altitude) / seconds; in
\* particular the north component is non-zero whenever the latitude changes.
C27_VelocityFromDisplacement ==
    (Updated /\ engine = "TS" /\ shouldPredict /\ threw = "none" /\ last.pre.cur # NULL
        /\ FiniteState(last.pre.cur) /\ now > _lastUpdateTime) =>
        /\ _velocity.y =
               Div(Mul(Sub(ObservedNow.position.lat, last.pre.cur.position.lat),
                       MetersPerDegree),
                   Div(Num(now - _lastUpdateTime), Num(1000)))
        /\ _velocity.z =
               Div(Sub(ObservedNow.position.altitude, last.pre.cur.position.altitude),
                   Div(Num(now - _lastUpdateTime), Num(1000)))
        /\ ObservedNow.position.lat # last.pre.cur.position.lat => _velocity.y # Zero

\* C28: in engine MF constructed with predict: true, each re-estimation of
\* the velocities is computed from two consecutive authoritative states: after
\* an update that re-estimated, the velocity estimate is (newly observed
\* position - position of the previous observation) / elapsed seconds, also
\* when prediction ticks ran between the two observations.
C28_EstimateFromObservations ==
    (Updated /\ engine = "MF" /\ shouldPredict /\ last.prevObserved # NULL
        /\ last.pre.interp # NULL /\ _lastDerivativeCalcTime = now
        /\ last.prevAt >= 0 /\ now > last.prevAt) =>
        _velocity = MotionDerivatives(last.prevObserved, lastObserved,
                                      Div(Num(now - last.prevAt), Num(1000))).velocity

\* C29: in engine MF a plan's target is a snapshot: while the plan created by
\* the last accepted update is live, its target has the values that update
\* observed, whatever ticks (interpolating or predicting) and
\* startPrediction/stopPrediction calls happened since; and the interpolating
\* tick that completes the plan leaves the interpolated state at those values.
C29_PlanTargetIsSnapshot ==
    /\ (engine = "MF" /\ _currentInterpolation # NULL) => PlanTarget = lastObserved
    /\ (engine = "MF" /\ Ticked /\ ~predict /\ last.pre.remainingFrames # UNDEF
            /\ _currentInterpolation = NULL) =>
           Deref(heap, _interpolationState) = lastObserved

\* an interpolating tick of an attached interval-timer engine with prediction off
InterpolatingTick ==
    Ticked /\ engine \in {"TS", "MF"} /\ _map = "map" /\ ~_disposed /\ ~predict

\* C30: in the interval-timer engines TS and MF, with prediction off and the
\* control attached, a plan is consumed one frame per tick: the remaining
\* frames of a live plan are an integer >= 0; a tick that finds N > 0
\* remaining frames leaves N - 1; the tick that finds 0 remaining frames (tick
\* N+1 of the plan) removes the plan and leaves the interpolated state equal
\* to the target; a tick that finds no plan leaves the interpolated state as
\* it was.
C30_PlanConsumedFrameByFrame ==
    /\ (engine \in {"TS", "MF"} /\ _currentInterpolation # NULL) =>
           /\ IsFinite(PlanFrames) /\ PlanFrames[2] = 1 /\ PlanFrames[1] >= 0
    /\ (InterpolatingTick /\ last.pre.remainingFrames # UNDEF
            /\ Gt(last.pre.remainingFrames, Zero)) =>
           /\ _currentInterpolation # NULL
           /\ PlanFrames = Sub(last.pre.remainingFrames, Num(1))
    /\ (InterpolatingTick /\ last.pre.remainingFrames = Zero) =>
           /\ _currentInterpolation = NULL
           /\ Interpolated = last.pre.target
    /\ (InterpolatingTick /\ last.pre.remainingFrames = UNDEF) =>
           /\ _currentInterpolation = NULL
           /\ Interpolated = (IF engine = "TS" THEN last.pre.cur ELSE last.pre.interp)

\* the fourth tick of a three-frame plan of engine MF: the plan is removed
\* and the interpolated state is the target
C30_Witness ==
    /\ InterpolatingTick /\ engine = "MF" /\ ticks = 4
    /\ last.pre.remainingFrames = Zero
    /\ _currentInterpolation = NULL
    /\ Interpolated = last.pre.target
    /\ Interpolated # NULL

\* the interpolated state a call found: _currentState in engine TS,
\* _interpolationState in engine MF
FoundInterpolated == IF engine = "TS" THEN last.pre.cur ELSE last.pre.interp

\* C31: in the interval-timer engines TS and MF, with prediction off, an
\* updateFlightState call that finds a live plan replaces it: after the call
\* the one plan of the instance starts at the interpolated state the call
\* found and leads to the state the call observed, and the interpolated state
\* is the one the call found.
C31_UpdateReplacesLivePlan ==
    (Updated /\ engine \in {"TS", "MF"} /\ ~predict /\ last.pre.remainingFrames # UNDEF) =>
        /\ _currentInterpolation # NULL
        /\ PlanStart = FoundInterpolated
        /\ PlanTarget = Observed(last.obs, last.pre.cur)
        /\ Interpolated = FoundInterpolated

\* engine MF: an update reaches a plan that two ticks have advanced
C31_Witness ==
    /\ Updated /\ engine = "MF" /\ ~predict /\ last.pre.remainingFrames # UNDEF
    /\ ticks = 2
    /\ PlanStart = last.pre.interp
    /\ PlanStart # last.pre.start
    /\ PlanTarget # last.pre.target

\* C32: in engine MF constructed with predict: true, the velocity estimates
\* are gated by a cooldown: an updateFlightState call that computes them comes
\* at least 5000 ms after the one that computed them before it, and a call
\* less than 5000 ms after the last computation leaves _velocity,
\* _angularVelocity and the time of the last computation as they were.
C32_EstimatesGatedByCooldown ==
    (Updated /\ engine = "MF" /\ shouldPredict) =>
        /\ (_lastDerivativeCalcTime # last.prevEstimateAt) =>
               /\ _lastDerivativeCalcTime = now
               /\ now - last.prevEstimateAt >= 5000
        /\ (now - last.prevEstimateAt < 5000) =>
               /\ _velocity = last.pre.estimates.velocity
               /\ _angularVelocity = last.pre.estimates.angular
               /\ _lastDerivativeCalcTime = last.prevEstimateAt

\* an update 50 ms after the one that computed a northward velocity leaves
\* the estimate alone
C32_Witness ==
    /\ Updated /\ engine = "MF" /\ shouldPredict
    /\ last.prevEstimateAt > 0
    /\ now - last.prevEstimateAt = 50
    /\ _velocity # Zero3
    /\ _velocity = last.pre.estimates.velocity
    /\ _lastDerivativeCalcTime = last.prevEstimateAt

\* C33: _calculateShortestAngleDelta(start, end) of engines TS and MF
\* returns, for all finite start and end (inside or outside [0, 360)), a
\* delta in [-180, 180] that leads from start to end: start plus the delta,
\* normalized to [0, 360), is end normalized to [0, 360).
C33_ShortestAngleDeltaLeadsToEnd ==
    (last.op = "_calculateShortestAngleDelta") =>
        /\ Ge(last.result, Num(-180))
        /\ Le(last.result, Num(180))
        /\ Wrap360(Add(last.obs.start, last.result)) = Wrap360(last.obs.end)

\* from 359 to -365, that is to 355: the delta is -4
C33_Witness ==
    /\ last.op = "_calculateShortestAngleDelta"
    /\ last.obs = [start |-> Num(359), end |-> Num(-365)]
    /\ last.result = Num(-4)

\* C34: _calculateHeadingToPoint of engine MF returns a bearing in [0, 360)
\* for every pair of points, targets to the west of the observer included.
C34_BearingInTurn ==
    (last.op = "_calculateHeadingToPoint" /\ engine = "MF") => InTurn(last.result)

InLongitudeRange(x) == IsFinite(x) /\ Ge(x, Num(-180)) /\ Le(x, Num(180))

\* C35: in the interval-timer engines TS and MF, with prediction off and
\* every observed longitude in [-180, 180], the longitude of the interpolated
\* state a tick hands to camera placement lies in [-180, 180], also while the
\* plan crosses the antimeridian.
C35_InterpolatedLongitudeInRange ==
    (InterpolatingTick /\ jumpToCalls = 1 /\ rendered # NULL) =>
        InLongitudeRange(rendered.position.lng)

\* C36: in engine TS an observed elevation is not lost: when the last
\* elevation supplied to updateFlightState is A (every later update omitted
\* elevation) and the engine has a state and no live plan, the current
\* altitude is A, also when a later update arrived before the plan toward A
\* had completed.
C36_SuppliedElevationReached ==
    (engine = "TS" /\ last.elevation # UNDEF /\ _currentState # NULL
        /\ _currentInterpolation = NULL) =>
        Cur.position.altitude = last.elevation

\* the state a predicting tick extrapolates from: in engine TS the state the
\* tick's interpolation step left, in engine MF the _currentState it found
PredictedFrom == IF engine = "TS" THEN Cur ELSE last.pre.cur

\* without predict: true the estimates are zero and prediction adds nothing
C37_UnpredictedInstance ==
    (engine \in {"TS", "MF"} /\ ~shouldPredict) =>
        /\ _velocity = Zero3
        /\ _angularVelocity = ZeroAngular
        /\ (Ticked /\ predict /\ jumpToCalls > 0) =>
               rendered.position = PredictedFrom.position

\* predict is switched on by startPrediction only
C37_PredictionStartsOnRequest ==
    (engine \in {"TS", "MF"} /\ ~predict /\ predict') => last'.op = "startPrediction"

\* C37: in the interval-timer engines TS and MF, an instance constructed
\* without predict: true has zero _velocity and _angularVelocity in every
\* state reachable through updateFlightState, startPrediction, stopPrediction,
\* setCameraMode, onAdd, onRemove and ticks, so a predicting tick renders the
\* position of the state it extrapolates from; and predict is false after
\* construction, with or without predict: true, and becomes true only by
\* startPrediction.
C37_EstimationOnlyWithPredictOption ==
    /\ []C37_UnpredictedInstance
    /\ [](last.op = "constructor" => ~predict)
    /\ [][C37_PredictionStartsOnRequest]_vars

\* engine MF constructed without predict: true: a predicting tick after two
\* observations five seconds and a thousandth of a degree apart renders the
\* observed position
C37_Witness ==
    /\ engine = "MF" /\ ~shouldPredict /\ Ticked /\ predict /\ jumpToCalls = 1
    /\ updates = 2
    /\ last.pre.prev # NULL
    /\ last.pre.prev.position # last.pre.cur.position
    /\ rendered.position = last.pre.cur.position
    /\ _velocity = Zero3

\* the per-type default offset of a mode supplied without an offset
TypeDefaultOffset(type) ==
    IF type = "CHASE" THEN XYZ(0, -30, 10)
    ELSE IF type = "ORBIT" THEN XYZ(0, -100, 50)
    ELSE XYZ(0, 0, 0)

\* C38: in every engine the offset in effect for a camera mode that came
\* without an offset is the default of its type, {0,-30,10} for CHASE,
\* {0,-100,50} for ORBIT, {0,0,0} for COCKPIT and FREE, whichever way the mode
\* became active: as the field default of a fresh instance, by the
\* constructor option cameraMode, or by setCameraMode.
C38_OffsetDefaultByType ==
    /\ (last.op = "constructor" /\ last.obs = NULL) =>
           _cameraMode.offset = TypeDefaultOffset(_cameraMode.type)
    /\ (last.op \in {"constructor", "setCameraMode"} /\ last.obs # NULL) =>
           (last.obs.offset = UNDEF =>
                /\ _cameraMode.type = last.obs.type
                /\ _cameraMode.offset = TypeDefaultOffset(last.obs.type))

\* C39: in the TS engine disposal is final for the motion state: once onRemove
\* has run, whatever is called later (updateFlightState, setCameraMode,
\* startPrediction, stopPrediction, a late tick), getState() keeps returning
\* null, no plan exists and no call raises an exception.
C39_DisposalIsFinal ==
    (engine = "TS" /\ _disposed) =>
        /\ _currentState = NULL
        /\ _currentInterpolation = NULL
        /\ threw = "none"

\* C40: in both interval-timer engines the map interactions that onAdd
\* disabled are enabled whenever onRemove has returned, for every sequence of
\* onAdd and onRemove calls on one instance.
C40_RemoveEnablesInteractions ==
    (engine \in {"TS", "MF"} /\ last.op = "onRemove") => interactions = "enabled"

=============================================================================
